---------------------------- MODULE Spec2Model ----------------------------
(***************************************************************************)
(* A model of the sputnik differential-testing harness generator           *)
(* (ppmx/dea-framework).  The module holds one state machine per           *)
(* component; every specification starts one component and parks the       *)
(* others in their idle state.                                             *)
(*                                                                         *)
(*   SpecVerifier   the generated verifier() functions (crafter.py)        *)
(***************************************************************************)
EXTENDS Integers, Sequences, FiniteSets, TLC

VARIABLES
    \* ---- generated harness: verifier(), lib_eval(), sputnik_abort()
    nlibs,               \* len(self.libs)
    verifier,            \* config['verifier']: "new" or "traditional"
    overridden,          \* TRUE when a test supplies its own lib_eval
    lib_eval_table,      \* the overriding lib_eval, as a table over index pairs
    eval_return_values,  \* eval_return_values[N] of the property space
    mapping,             \* int mapping[N] of the clustering verifier
    count_cluster,       \* int count_cluster
    aborted,             \* sputnik_abort was called
    message,             \* the char *message passed to sputnik_abort
    vpc,                 \* position inside verifier()
    \* ---- TestHarness.build_targets / build_target (crafter.py)
    fs,                  \* the temp parent directory: name -> "absent" | "file" | "dir"
    self_tmp,            \* self.tmp (0: None)
    local_tmp,           \* local_tmp of build_semantic_wrappers (0: not allocated)
    blibs,               \* len(self.libs) of the building TestHarness
    nwrappers,           \* len(self.semantic_wrappers)
    keep_folder,         \* keep_folder argument of build_targets
    wlib,                \* index of the library whose semantic wrappers are built
    wfile,               \* index of the semantic wrapper being compiled
    created,             \* temp directories created by the running invocation
    builds,              \* number of finished build_targets invocations
    bpc,                 \* position inside build_targets
    \* ---- toolchain driver (compiler.py)
    tsrcs,               \* srcs of compile_collection: the (src, dest) pairs in order
    tidx,                \* number of pairs the loop has handled
    tfiles,              \* files
    tstats,              \* stats
    tchildren,           \* what the child process of each handled pair did
    top,                 \* the toolchain operation called last
    tchild,              \* what its child process did
    tresult,             \* how that operation ended
    tpc,                 \* position inside the toolchain driver
    \* ---- symbol renamer (rename.py)
    ir_src,              \* the module in file src: its top-level lines
    ir_text,             \* the text of the file handed to rename as src, line by line
    ir_prefix,           \* prefix
    ir_mapping,          \* the dict detect_names built: (key, value) in insertion order
    ir_out,              \* the text substitute wrote to dest, line by line
    ir_raised,           \* the exception that ended rename
    ir_done,             \* the renames that returned: [prefix, mapping, out]
    ir_queue,            \* the libraries still to rename: [src, prefix]
    rpc,                 \* position inside the renamer
    \* ---- library builder (prebuild.py, library.py)
    p_sources,           \* what lib.sources() yields, in order
    p_wrappers,          \* config['wrappers'] is set
    p_functions,         \* the keys of config['functions'], in order
    p_included,          \* included_files.json: [state, files]
    p_builddir,          \* the IR files in lib.builddir
    p_target,            \* lib.target: [state, lines]
    p_mapfile,           \* rename_mapping.json: [exists, mapping]
    p_rebuild,           \* rebuild argument of run
    p_loaded,            \* what pre_compile found in place of included_files.json
    p_old_files,         \* old_files
    p_new_files,         \* new_files: the work set, (src, dest) in order
    p_children,          \* what the compiler child of each work-set pair did
    p_files,             \* files of run
    p_linked,            \* the list handed to compiler.link
    p_ll,                \* the disassembled target (file_ll)
    p_mapping,           \* mapping of run
    p_log,               \* warnings, errors and the integrity verdict logged
    p_failed_at,         \* the step whose exception ended the run
    ppc,                 \* position inside Builder.run
    \* ---- C declarations (language.py)
    lg_line,             \* the declaration handed to Signature.parse
    lg_other,            \* a second declaration, parsed for a comparison
    lg_default,          \* default_array_size
    lg_heap,             \* the Variable objects: object id -> attributes
    lg_sig,              \* the Signature parse returned: [name, args, ret], ids
    lg_parsed,           \* what parse returned, by value
    lg_forks,            \* the Functions fork returned, in order
    lg_forked,           \* what each fork held when it was made, by value
    lg_touched,          \* the (fork, object) pairs mutated since
    lg_emitted,          \* declaration, definition and call rendered from a fork
    lg_reparsed,         \* Signature.parse of the rendered declaration, by value
    lg_equal,            \* results of ==: parsed == other, other == parsed
    lg_raised,           \* the exception Signature.parse raised
    lgpc,                \* position of the caller
    \* ---- test preparation and array sweep (crafter.py)
    h_max,               \* general_max_array_width
    h_decl,              \* the declaration of the function under test
    h_from_config,       \* TRUE when _configure assigns self.signature
    h_engine,            \* self.engine
    h_array_width,       \* self.array_width
    h_signature,         \* self.__signature, by value
    h_entries,           \* the names of self.entries, per library
    h_arguments_cache,   \* self.arguments_cache: (name, Variable) in insertion order
    h_testcases,         \* self.testcases_fuzzing: (name, seed) in insertion order
    h_assumptions,       \* self.assumptions
    h_prepared,          \* the last prepare(): [width, raised]
    h_sweep,             \* the widths build_targets_array still has to run
    h_runs,              \* what each build_target of the sweep was built from
    h_input,             \* the last define_input_fuzzing call and its outcome
    h_steps,             \* calls made by the test so far
    hpc,                 \* position of the caller
    \* ---- call wrappers (prebuild.py build_call_wrappers)
    cw_functions,        \* config['functions'] in order: [name, line, header]
    cw_source,           \* what was printed to config['wrappers'], one item per print
    cw_header,           \* what was printed to config['wrappers_header'], one item per print
    cw_raised,           \* the exception that ended build_call_wrappers
    cwpc,                \* position of the caller
    \* ---- harness generation (crafter.py generate_test_harness and build_target)
    g_decl,              \* the declaration the test configures or the man page holds
    g_from_config,       \* whether _configure of the test assigns the signature
    g_mapped,            \* per library whether its rename map holds the function
    g_engine,            \* self.engine
    g_array_width,       \* self.array_width
    g_signature,         \* self.signature
    g_entries,           \* the names of self.entries, in the order of self.libs
    g_arguments_cache,   \* self.arguments_cache
    g_testcases,         \* self.testcases_fuzzing
    g_assumptions,       \* self.assumptions
    g_harness,           \* the parts of the test harness generated last
    g_seed_files,        \* the testcase files the last fuzzing build wrote
    g_raised,            \* the exception the last call ended with
    g_steps,             \* number of calls made on the object
    gpc                  \* position of the caller

verifierVars == <<nlibs, verifier, overridden, lib_eval_table, eval_return_values,
                  mapping, count_cluster, aborted, message, vpc>>

buildVars == <<fs, self_tmp, local_tmp, blibs, nwrappers, keep_folder, wlib, wfile,
               created, builds, bpc>>

toolVars == <<tsrcs, tidx, tfiles, tstats, tchildren, top, tchild, tresult, tpc>>

renameVars == <<ir_src, ir_text, ir_prefix, ir_mapping, ir_out, ir_raised, ir_done, ir_queue, rpc>>

prebuildVars == <<p_sources, p_wrappers, p_functions, p_included, p_builddir, p_target,
                  p_mapfile, p_rebuild, p_loaded, p_old_files, p_new_files, p_children,
                  p_files, p_linked, p_ll, p_mapping, p_log, p_failed_at, ppc>>

languageVars == <<lg_line, lg_other, lg_default, lg_heap, lg_sig, lg_parsed, lg_forks,
                  lg_forked, lg_touched, lg_emitted, lg_reparsed, lg_equal, lg_raised,
                  lgpc>>

harnessVars == <<h_max, h_decl, h_from_config, h_engine, h_array_width,
                 h_signature, h_entries, h_arguments_cache, h_testcases, h_assumptions,
                 h_prepared, h_sweep, h_runs, h_input, h_steps, hpc>>

wrappersVars == <<cw_functions, cw_source, cw_header, cw_raised, cwpc>>

generationVars == <<g_decl, g_from_config, g_mapped, g_engine, g_array_width, g_signature,
    g_entries, g_arguments_cache, g_testcases, g_assumptions, g_harness, g_seed_files,
    g_raised, g_steps, gpc>>

vars == <<verifierVars, buildVars, toolVars, renameVars, prebuildVars, languageVars,
          harnessVars, wrappersVars, generationVars>>

\* What the actions of one component leave alone: the other components.
notVerifierVars == <<buildVars, toolVars, renameVars, prebuildVars, languageVars,
    harnessVars,
    wrappersVars,
    generationVars>>

notBuildVars == <<verifierVars, toolVars, renameVars, prebuildVars, languageVars,
    harnessVars,
    wrappersVars,
    generationVars>>

notToolVars == <<verifierVars, buildVars, renameVars, prebuildVars, languageVars,
    harnessVars,
    wrappersVars,
    generationVars>>

notRenameVars == <<verifierVars, buildVars, toolVars, prebuildVars, languageVars,
    harnessVars,
    wrappersVars,
    generationVars>>

notPrebuildVars == <<verifierVars, buildVars, toolVars, renameVars, languageVars,
    harnessVars,
    wrappersVars,
    generationVars>>

notLanguageVars == <<verifierVars, buildVars, toolVars, renameVars, prebuildVars,
    harnessVars,
    wrappersVars,
    generationVars>>

notHarnessVars == <<verifierVars, buildVars, toolVars, renameVars, prebuildVars,
                    languageVars,
    wrappersVars,
    generationVars>>

notWrappersVars == <<verifierVars, buildVars, toolVars, renameVars, prebuildVars,
    languageVars, harnessVars,
    generationVars>>

notGenerationVars == <<verifierVars, buildVars, toolVars, renameVars, prebuildVars,
    languageVars, harnessVars, wrappersVars>>

-----------------------------------------------------------------------------
(* Bounds of the model *)

\* Largest number of libraries in a harness.
MaxLibs == 4

\* Largest number of libraries in a harness whose libraries return one of two values
\* (cluster indices of two digits need ten libraries).
MaxManyLibs == 10

\* Largest number of libraries for which every lib_eval override is enumerated.
MaxOverrideLibs == 3

\* Return values of a library call are drawn from 0..MaxRetValue.
MaxRetValue == 2

-----------------------------------------------------------------------------
\* Number of candidate names the random suffix of a temp directory is drawn from.
MaxTmpNames == 3

\* Largest number of libraries of a building TestHarness.
MaxBuildLibs == 2

\* Largest number of semantic wrapper sources of a test.
MaxWrappers == 2

\* Number of build_targets invocations on one TestHarness object.
MaxBuilds == 2

\* Largest number of (src, dest) pairs handed to compile_collection.
MaxPairs == 3

\* Largest number of top-level lines of an LLVM IR module.
MaxLines == 2

\* Largest number of lines of the blob of a library, where two are renamed.
MaxLibraryLines == 2

\* Largest number of arguments of a parsed declaration.
MaxArgs == 2

\* Largest number of forks taken of one signature.
MaxForks == 2

\* Largest number of attribute assignments made to the Variables of forks.
MaxMutations == 2

\* Largest number of paths lib.sources() yields.
\* Arguments of a prepared function.
MaxHarnessArgs == 2

\* The largest general_max_array_width and array_width.
MaxArrayWidth == 10

\* Calls a test makes on its TestHarness before the sweep.
MaxHarnessSteps == 2

\* Functions a configuration lists for the call wrappers.
MaxWrapperFunctions == 2

MaxTraversal == 2

\* Arguments of a function a harness is generated for.
MaxGenerationArgs == 2

\* Calls made on one TestHarness object.
MaxGenerationSteps == 3

-----------------------------------------------------------------------------
(* Generic helpers *)

\* text[from..] starts with word.
StartsWith(text, from, word) ==
    /\ from + Len(word) - 1 <= Len(text)
    /\ \A k \in 1 .. Len(word) : text[from + k - 1] = word[k]

\* The least element of a non-empty set of integers.
Min(S) == CHOOSE x \in S : \A y \in S : x <= y

\* The greatest element of a non-empty set of integers.
Max(S) == CHOOSE x \in S : \A y \in S : x >= y

\* The elements of a sequence.
Range(seq) == {seq[k] : k \in 1 .. Len(seq)}

\* No element occurs twice.
NoDuplicates(seq) == \A a \in 1 .. Len(seq) : \A b \in 1 .. Len(seq) : seq[a] = seq[b] => a = b

RECURSIVE Concat(_)
\* Concatenation of a sequence of sequences.
Concat(ss) == IF Len(ss) = 0 THEN <<>> ELSE Head(ss) \o Concat(Tail(ss))

-----------------------------------------------------------------------------
(* The harness: crafter.py, generate_test_harness and the functions it emits *)

\* #define UNALLOCATED -1
UNALLOCATED == -1

LibIdx == 0 .. (nlibs - 1)

Letters == <<"a", "b", "c", "d", "e", "f", "g", "h", "i", "j", "k", "l", "m">>

Digits == <<"0", "1", "2", "3", "4", "5", "6", "7", "8", "9">>

\* const char *libs_identifier[N] = { "<lib.name>", ... }: the i-th library's name.
libs_identifier(i) == <<"l", "i", "b", Letters[i + 1]>>

\* int lib_eval(int i, int j): the default compares eval_return_values; a test
\* may override it with any function of the two indices.
lib_eval(i, j) ==
    IF overridden THEN lib_eval_table[<<i, j>>]
    ELSE IF eval_return_values[i] = eval_return_values[j] THEN 0 ELSE 1

RECURSIVE FindCluster(_, _, _)
\* The inner loop of the clustering step, from index j on: the cluster of the first
\* clustered library j /= i that lib_eval considers equal to i, else UNALLOCATED.
FindCluster(i, j, m) ==
    IF j >= nlibs THEN m[i]
    ELSE IF j = i \/ m[j] = UNALLOCATED THEN FindCluster(i, j + 1, m)
    ELSE IF lib_eval(i, j) = 0 THEN m[j]
    ELSE FindCluster(i, j + 1, m)

\* The index of a cluster that library i opens.
NewClusterIndex(i) == i + 1

RECURSIVE ClusterLoop(_)
\* The clustering step after the outer loop has run for the indices below i:
\* [m, count], the values of mapping and count_cluster.
ClusterLoop(i) ==
    IF i = 0 THEN [m |-> [k \in LibIdx |-> UNALLOCATED], count |-> 0]
    ELSE LET st    == ClusterLoop(i - 1)
             found == FindCluster(i - 1, 0, st.m)
         IN  IF st.m[i - 1] # UNALLOCATED THEN st
             ELSE IF found = UNALLOCATED
             THEN [m     |-> [st.m EXCEPT ![i - 1] = NewClusterIndex(i - 1)],
                   count |-> st.count + 1]
             ELSE [st EXCEPT !.m[i - 1] = found]

AbortThresholdOffByOne(count) == count >= 1

\* if (count_cluster > 1)
MoreThanOneCluster(count) == count > 1

RECURSIVE EmitDigits(_)
\* while (mapping[i] != 0) { rem = mapping[i] % 10; *message_ptr++ = rem + '0';
\*                           mapping[i] = mapping[i] / 10; }
EmitDigits(n) ==
    IF n = 0 THEN <<>>
    ELSE <<Digits[(n % 10) + 1]>> \o EmitDigits(n \div 10)

\* One line of the report: the library's name, ':', the digits, 0x0a.
ReportLine(i, m) == libs_identifier(i) \o <<":">> \o EmitDigits(m[i]) \o <<"\n">>

\* The message built by the report loop.
ReportMessage(m) == Concat([k \in 1 .. nlibs |-> ReportLine(k - 1, m)])

\* verifier(), clustering variant: initialisation and clustering step.
NewVerifierCluster ==
    /\ vpc = "start"
    /\ verifier = "new"
    /\ LET st == ClusterLoop(nlibs)
       IN  /\ mapping' = st.m
           /\ count_cluster' = st.count
    /\ vpc' = "clustered"
    /\ UNCHANGED <<nlibs, verifier, overridden, lib_eval_table, eval_return_values,
                   aborted, message>>
    /\ UNCHANGED notVerifierVars

\* verifier(), clustering variant: the report and the call of sputnik_abort.
NewVerifierReport ==
    /\ vpc = "clustered"
    /\ IF MoreThanOneCluster(count_cluster)
       THEN /\ message' = ReportMessage(mapping)
            /\ mapping' = [i \in LibIdx |-> 0]
            /\ aborted' = TRUE
       ELSE UNCHANGED <<message, mapping, aborted>>
    /\ vpc' = "done"
    /\ UNCHANGED <<nlibs, verifier, overridden, lib_eval_table, eval_return_values,
                   count_cluster>>
    /\ UNCHANGED notVerifierVars

RECURSIVE InnerScan(_, _)
\* The inner loop of the traditional verifier for row i, from column j on: TRUE
\* when a pair with lib_eval(i, j) != 0 is met, which calls sputnik_abort.
InnerScan(i, j) ==
    IF j >= nlibs THEN FALSE
    ELSE IF lib_eval(i, j) # 0 THEN TRUE
    ELSE InnerScan(i, j + 1)

UpperTriangleScan(i) == \E j \in LibIdx : j > i /\ lib_eval(i, j) # 0

\* for (size_t j = 0; j < N; j++) if (lib_eval(i, j) != 0) sputnik_abort(...);
RowScan(i) == InnerScan(i, 0)

RECURSIVE TraditionalScan(_)
\* The outer loop of the traditional verifier, from row i on.
TraditionalScan(i) ==
    IF i >= nlibs THEN FALSE
    ELSE IF RowScan(i) THEN TRUE
    ELSE TraditionalScan(i + 1)

\* verifier(), traditional variant.
TraditionalVerifier ==
    /\ vpc = "start"
    /\ verifier = "traditional"
    /\ IF TraditionalScan(0)
       THEN /\ aborted' = TRUE
            /\ message' = <<"assertion error">>
       ELSE UNCHANGED <<aborted, message>>
    /\ vpc' = "done"
    /\ UNCHANGED <<nlibs, verifier, overridden, lib_eval_table, eval_return_values,
                   mapping, count_cluster>>
    /\ UNCHANGED notVerifierVars

\* The harness reaches verifier() after the entry calls filled eval_return_values.
VerifierInit ==
    /\ verifier \in {"new", "traditional"}
    /\ \/ /\ nlibs \in 2 .. MaxLibs
          /\ overridden = FALSE
          /\ lib_eval_table = <<>>
          /\ eval_return_values \in [0 .. (nlibs - 1) -> 0 .. MaxRetValue]
       \/ /\ nlibs \in 2 .. MaxOverrideLibs
          /\ overridden = TRUE
          /\ lib_eval_table \in [(0 .. (nlibs - 1)) \X (0 .. (nlibs - 1)) -> {0, 1}]
          /\ eval_return_values = <<>>
    /\ mapping = <<>>
    /\ count_cluster = 0
    /\ aborted = FALSE
    /\ message = <<>>
    /\ vpc = "start"

\* Harnesses of up to MaxManyLibs libraries whose calls return 0 or 1.
VerifierInitMany ==
    /\ verifier \in {"new", "traditional"}
    /\ nlibs \in 2 .. MaxManyLibs
    /\ overridden = FALSE
    /\ lib_eval_table = <<>>
    /\ eval_return_values \in [0 .. (nlibs - 1) -> {0, 1}]
    /\ mapping = <<>>
    /\ count_cluster = 0
    /\ aborted = FALSE
    /\ message = <<>>
    /\ vpc = "start"

VerifierIdle ==
    /\ nlibs = 0
    /\ verifier = "new"
    /\ overridden = FALSE
    /\ lib_eval_table = <<>>
    /\ eval_return_values = <<>>
    /\ mapping = <<>>
    /\ count_cluster = 0
    /\ aborted = FALSE
    /\ message = <<>>
    /\ vpc = "idle"

VerifierNext ==
    \/ NewVerifierCluster
    \/ NewVerifierReport
    \/ TraditionalVerifier

-----------------------------------------------------------------------------
(* Temp directories: tools.py; the build of a target: crafter.py *)

TmpNames == 1 .. MaxTmpNames

\* generate_tmp_dir with the random candidate `name`: "retry" when the candidate is
\* a regular file (os.path.isfile), else os.mkdir, which raises FileExistsError
\* when the candidate exists (as a directory) and creates it otherwise.
TmpDirOutcome(name) ==
    IF fs[name] = "file" THEN "retry"
    ELSE IF fs[name] = "absent" THEN "created"
    ELSE "FileExistsError"

\* cleanup_tmp_dir(dirname): shutil.rmtree.
RmTree(dirname) == [fs EXCEPT ![dirname] = "absent"]

\* A step of the build raised: the exception leaves build_target and build_targets;
\* no handler and no finally clause runs.
Raise == bpc' = "failed"

\* build_targets calls build_target.
BuildTargetsCall ==
    /\ bpc = "idle"
    /\ builds < MaxBuilds
    /\ keep_folder' \in BOOLEAN
    /\ created' = {}
    /\ bpc' = "tmp"
    /\ UNCHANGED <<fs, self_tmp, local_tmp, blibs, nwrappers, wlib, wfile, builds>>
    /\ UNCHANGED notBuildVars

\* build_target: self.tmp = tools.generate_tmp_dir(add=f"sputnik_{self.function}_")
BuildTargetTmp ==
    /\ bpc = "tmp"
    /\ \E name \in TmpNames :
         CASE TmpDirOutcome(name) = "retry" ->
                UNCHANGED <<fs, self_tmp, created, bpc, wlib>>
           [] TmpDirOutcome(name) = "created" ->
                /\ fs' = [fs EXCEPT ![name] = "dir"]
                /\ self_tmp' = name
                /\ created' = created \cup {name}
                /\ wlib' = 0
                /\ bpc' = IF nwrappers > 0 THEN "w_tmp" ELSE "harness"
           [] OTHER ->
                /\ Raise
                /\ UNCHANGED <<fs, self_tmp, created, wlib>>
    /\ UNCHANGED <<local_tmp, blibs, nwrappers, keep_folder, wfile, builds>>
    /\ UNCHANGED notBuildVars

\* build_semantic_wrappers: local_tmp = tools.generate_tmp_dir(tmp, ...)
WrapperTmp ==
    /\ bpc = "w_tmp"
    /\ \E name \in TmpNames :
         CASE TmpDirOutcome(name) = "retry" ->
                UNCHANGED <<fs, local_tmp, created, bpc, wfile>>
           [] TmpDirOutcome(name) = "created" ->
                /\ fs' = [fs EXCEPT ![name] = "dir"]
                /\ local_tmp' = name
                /\ created' = created \cup {name}
                /\ wfile' = 0
                /\ bpc' = "w_compile"
           [] OTHER ->
                /\ Raise
                /\ UNCHANGED <<fs, local_tmp, created, wfile>>
    /\ UNCHANGED <<self_tmp, blibs, nwrappers, keep_folder, wlib, builds>>
    /\ UNCHANGED notBuildVars

\* build_semantic_wrappers: compiler.compile_file of one wrapper source.
WrapperCompile ==
    /\ bpc = "w_compile"
    /\ \E ok \in BOOLEAN :
         IF ok
         THEN /\ wfile' = wfile + 1
              /\ bpc' = IF wfile + 1 = nwrappers THEN "w_link" ELSE "w_compile"
         ELSE /\ Raise
              /\ UNCHANGED wfile
    /\ UNCHANGED <<fs, self_tmp, local_tmp, blibs, nwrappers, keep_folder, wlib,
                   created, builds>>
    /\ UNCHANGED notBuildVars

\* build_semantic_wrappers: compiler.link(blob, local_files, '-S')
WrapperLink ==
    /\ bpc = "w_link"
    /\ \E ok \in BOOLEAN : IF ok THEN bpc' = "w_rename" ELSE Raise
    /\ UNCHANGED <<fs, self_tmp, local_tmp, blibs, nwrappers, keep_folder, wlib, wfile,
                   created, builds>>
    /\ UNCHANGED notBuildVars

\* build_semantic_wrappers: load_rename_mapping, substitute, rename and the lookup
\* of the entry in the mapping; each may raise (no rename map, no such key).
WrapperRename ==
    /\ bpc = "w_rename"
    /\ \E ok \in BOOLEAN : IF ok THEN bpc' = "w_cleanup" ELSE Raise
    /\ UNCHANGED <<fs, self_tmp, local_tmp, blibs, nwrappers, keep_folder, wlib, wfile,
                   created, builds>>
    /\ UNCHANGED notBuildVars

\* build_semantic_wrappers: tools.cleanup_tmp_dir(local_tmp); the loop of
\* build_target goes on with the next library.
WrapperCleanup ==
    /\ bpc = "w_cleanup"
    /\ fs' = RmTree(local_tmp)
    /\ local_tmp' = 0
    /\ wlib' = wlib + 1
    /\ bpc' = IF wlib + 1 = blibs THEN "harness" ELSE "w_tmp"
    /\ UNCHANGED <<self_tmp, blibs, nwrappers, keep_folder, wfile, created, builds>>
    /\ UNCHANGED notBuildVars

\* build_target: write_test_harness (generate_test_harness may raise).
WriteHarness ==
    /\ bpc = "harness"
    /\ \E ok \in BOOLEAN : IF ok THEN bpc' = "compile" ELSE Raise
    /\ UNCHANGED <<fs, self_tmp, local_tmp, blibs, nwrappers, keep_folder, wlib, wfile,
                   created, builds>>
    /\ UNCHANGED notBuildVars

\* build_target_symex / build_target_fuzzing: the compile_file calls.
HarnessCompile ==
    /\ bpc = "compile"
    /\ \E ok \in BOOLEAN : IF ok THEN bpc' = "link" ELSE Raise
    /\ UNCHANGED <<fs, self_tmp, local_tmp, blibs, nwrappers, keep_folder, wlib, wfile,
                   created, builds>>
    /\ UNCHANGED notBuildVars

\* build_target_symex: compiler.link; build_target_fuzzing: afl-gcc.  Then
\* build_target returns the target.
HarnessLink ==
    /\ bpc = "link"
    /\ \E ok \in BOOLEAN : IF ok THEN bpc' = "built" ELSE Raise
    /\ UNCHANGED <<fs, self_tmp, local_tmp, blibs, nwrappers, keep_folder, wlib, wfile,
                   created, builds>>
    /\ UNCHANGED notBuildVars

\* build_targets: if not keep_folder: self.cleanup_all()
BuildTargetsCleanup ==
    /\ bpc = "built"
    /\ fs' = IF keep_folder THEN fs ELSE RmTree(self_tmp)
    /\ bpc' = "done"
    /\ UNCHANGED <<self_tmp, local_tmp, blibs, nwrappers, keep_folder, wlib, wfile,
                   created, builds>>
    /\ UNCHANGED notBuildVars

\* build_targets has returned or raised; the caller may build again.
BuildTargetsReturn ==
    /\ bpc \in {"done", "failed"}
    /\ builds' = builds + 1
    /\ bpc' = "idle"
    /\ UNCHANGED <<fs, self_tmp, local_tmp, blibs, nwrappers, keep_folder, wlib, wfile,
                   created>>
    /\ UNCHANGED notBuildVars

\* A TestHarness after __init__ and configure; the temp parent holds anything.
BuildInit ==
    /\ fs \in [TmpNames -> {"absent", "file", "dir"}]
    /\ self_tmp = 0
    /\ local_tmp = 0
    /\ blibs \in 1 .. MaxBuildLibs
    /\ nwrappers \in 0 .. MaxWrappers
    /\ keep_folder = FALSE
    /\ wlib = 0
    /\ wfile = 0
    /\ created = {}
    /\ builds = 0
    /\ bpc = "idle"

BuildIdle ==
    /\ fs = <<>>
    /\ self_tmp = 0
    /\ local_tmp = 0
    /\ blibs = 0
    /\ nwrappers = 0
    /\ keep_folder = FALSE
    /\ wlib = 0
    /\ wfile = 0
    /\ created = {}
    /\ builds = 0
    /\ bpc = "parked"

BuildNext ==
    \/ BuildTargetsCall
    \/ BuildTargetTmp
    \/ WrapperTmp
    \/ WrapperCompile
    \/ WrapperLink
    \/ WrapperRename
    \/ WrapperCleanup
    \/ WriteHarness
    \/ HarnessCompile
    \/ HarnessLink
    \/ BuildTargetsCleanup
    \/ BuildTargetsReturn

-----------------------------------------------------------------------------
(* The toolchain driver: compiler.py *)

\* What a child process can do: its exit status and what it wrote to stderr.
ChildResults == [returncode : {0, 1}, stderr : {<<>>, <<"w">>}]

\* subprocess.run itself failing (no such cwd, ...): an OSError, no child result.
SpawnFailure == [returncode : {-1}, stderr : {<<"spawn">>}]

NoResult == [raised |-> "none", carried |-> <<>>, none |-> TRUE, value |-> <<>>]

\* run_command(call, cwd): raises CompileError(stderr) on a non-zero exit status,
\* else returns stderr, or None when stderr is empty.
run_command(child) ==
    IF child \in SpawnFailure
    THEN [raised |-> "OSError", carried |-> child.stderr, none |-> TRUE, value |-> <<>>]
    ELSE IF child.returncode # 0
    THEN [raised |-> "CompileError", carried |-> child.stderr, none |-> TRUE,
          value |-> <<>>]
    ELSE [raised |-> "none", carried |-> <<>>, none |-> child.stderr = <<>>,
          value |-> child.stderr]

\* compile_file(dest, src, cflags, cwd)
compile_file(child) == run_command(child)

\* link(dest, files, args)
link(child) == run_command(child)

\* disassemble(dest, src)
disassemble(child) == run_command(child)

\* assemble(dest, src)
assemble(child) == run_command(child)

ToolOps == {"compile_file", "link", "disassemble", "assemble"}

ToolResult(op, child) ==
    CASE op = "compile_file" -> compile_file(child)
      [] op = "link"         -> link(child)
      [] op = "disassemble"  -> disassemble(child)
      [] OTHER               -> assemble(child)

\* `if warning:` -- None and the empty string are false.
Truthy(res) == ~res.none /\ res.value # <<>>

ZeroStats == [skipped |-> 0, compiled |-> 0, failed |-> 0, warning |-> 0]

IterationDropsWarned(st, dest, child) ==
    LET res == compile_file(child)
    IN  IF res.raised # "none"
        THEN [st EXCEPT !.stats.failed = @ + 1]
        ELSE IF Truthy(res)
        THEN [st EXCEPT !.stats.warning = @ + 1]
        ELSE [files |-> Append(st.files, dest),
              stats |-> [st.stats EXCEPT !.compiled = @ + 1]]

\* One iteration of the loop of compile_collection; st = [files, stats].
Iteration(st, dest, child) ==
    LET res == compile_file(child)
    IN  IF res.raised # "none"
        THEN [st EXCEPT !.stats.failed = @ + 1]
        ELSE [files |-> Append(st.files, dest),
              stats |-> [st.stats EXCEPT
                            !.warning  = IF Truthy(res) THEN @ + 1 ELSE @,
                            !.compiled = @ + 1]]

RECURSIVE CollectionLoop(_, _, _)
\* compile_collection(srcs, ...) after the first n pairs, the children behaving as
\* `children` says.
CollectionLoop(srcs, children, n) ==
    IF n = 0 THEN [files |-> <<>>, stats |-> ZeroStats]
    ELSE Iteration(CollectionLoop(srcs, children, n - 1), srcs[n][2], children[n])

\* A compile_collection that lists every destination, also of a failed compile.
CompileCollectionListsFailed(srcs, children) ==
    [files |-> [k \in 1 .. Len(srcs) |-> srcs[k][2]],
     stats |-> CollectionLoop(srcs, children, Len(srcs)).stats]

\* compile_collection(srcs, cflags, cwd): what it returns.
compile_collection(srcs, children) == CollectionLoop(srcs, children, Len(srcs))

\* A caller hands compile_collection a map of n pairs.
CompileCollectionCall ==
    /\ tpc = "idle"
    /\ \E n \in 0 .. MaxPairs : tsrcs' = [k \in 1 .. n |-> <<k, <<"ll", k>>>>]
    /\ tidx' = 0
    /\ tfiles' = <<>>
    /\ tstats' = ZeroStats
    /\ tchildren' = <<>>
    /\ tpc' = "loop"
    /\ UNCHANGED <<top, tchild, tresult>>
    /\ UNCHANGED notToolVars

\* compile_collection: one pass through the loop body.
CompileCollectionIteration ==
    /\ tpc = "loop"
    /\ tidx < Len(tsrcs)
    /\ \E child \in ChildResults \cup SpawnFailure :
         LET st == Iteration([files |-> tfiles, stats |-> tstats],
                             tsrcs[tidx + 1][2], child)
         IN  /\ tfiles' = st.files
             /\ tstats' = st.stats
             /\ tchildren' = Append(tchildren, child)
             /\ top' = "compile_file"
             /\ tchild' = child
             /\ tresult' = compile_file(child)
    /\ tidx' = tidx + 1
    /\ UNCHANGED <<tsrcs, tpc>>
    /\ UNCHANGED notToolVars

\* compile_collection: return files, stats
CompileCollectionReturn ==
    /\ tpc = "loop"
    /\ tidx = Len(tsrcs)
    /\ tpc' = "returned"
    /\ UNCHANGED <<tsrcs, tidx, tfiles, tstats, tchildren, top, tchild, tresult>>
    /\ UNCHANGED notToolVars

\* A caller invokes one toolchain operation.
ToolCall ==
    /\ tpc = "idle"
    /\ \E op \in ToolOps : \E child \in ChildResults :
         /\ top' = op
         /\ tchild' = child
         /\ tresult' = ToolResult(op, child)
    /\ tpc' = "called"
    /\ UNCHANGED <<tsrcs, tidx, tfiles, tstats, tchildren>>
    /\ UNCHANGED notToolVars

\* The caller goes on.
ToolDone ==
    /\ tpc \in {"returned", "called"}
    /\ tpc' = "idle"
    /\ UNCHANGED <<tsrcs, tidx, tfiles, tstats, tchildren, top, tchild, tresult>>
    /\ UNCHANGED notToolVars

ToolInit ==
    /\ tsrcs = <<>>
    /\ tidx = 0
    /\ tfiles = <<>>
    /\ tstats = ZeroStats
    /\ tchildren = <<>>
    /\ top = "none"
    /\ tchild = [returncode |-> 0, stderr |-> <<>>]
    /\ tresult = NoResult
    /\ tpc = "idle"

ToolIdle ==
    /\ tsrcs = <<>>
    /\ tidx = 0
    /\ tfiles = <<>>
    /\ tstats = ZeroStats
    /\ tchildren = <<>>
    /\ top = "none"
    /\ tchild = [returncode |-> 0, stderr |-> <<>>]
    /\ tresult = NoResult
    /\ tpc = "parked"

ToolNext ==
    \/ CompileCollectionCall
    \/ CompileCollectionIteration
    \/ CompileCollectionReturn
    \/ ToolCall
    \/ ToolDone

-----------------------------------------------------------------------------
(* LLVM IR as text, and the symbol renamer: rename.py *)

\* Symbol names of the modelled modules: s, st, _s, s_s and the quoted "s".
Names ==
    {<<"s">>, <<"s", "t">>, <<"_", "s">>, <<"s", "_", "s">>, <<"\"", "s", "\"">>}

\* Rename prefixes (library names): p, musl and p_s.
Prefixes == {<<"p">>, <<"m", "u", "s", "l">>, <<"p", "_", "s">>}

W_internal == <<"i", "n", "t", "e", "r", "n", "a", "l">>

W_private == <<"p", "r", "i", "v", "a", "t", "e">>

W_appending == <<"a", "p", "p", "e", "n", "d", "i", "n", "g">>

W_external == <<"e", "x", "t", "e", "r", "n", "a", "l">>

W_externally_initialized == <<"e", "x", "t", "e", "r", "n", "a", "l", "l", "y", "_", "i", "n", "i", "t", "i", "a", "l", "i", "z", "e", "d">>

W_weak == <<"w", "e", "a", "k">>

W_define == <<"d", "e", "f", "i", "n", "e">>

W_declare == <<"d", "e", "c", "l", "a", "r", "e">>

W_global == <<"g", "l", "o", "b", "a", "l">>

W_type == <<"i", "8">>

\* What may stand between "@name = " and "global" in the line of a global variable:
\* a linkage, or nothing, or (with the default linkage) externally_initialized.
GlobalQualifiers ==
    {<<>>, W_internal, W_private, W_appending, W_external, W_weak,
     W_externally_initialized}

\* What may stand between "define " and the return type: a linkage or nothing.
DefineQualifiers == {<<>>, W_internal, W_private, W_weak}

\* The top-level lines of a module.
IRLines ==
    [kind : {"global"}, qual : GlobalQualifiers, name : Names]
    \cup [kind : {"define"}, qual : DefineQualifiers, name : Names]
    \cup [kind : {"declare"}, qual : {<<>>}, name : Names]

\* A qualifier and the blank after it.
Spaced(word) == IF word = <<>> THEN <<>> ELSE word \o <<" ">>

\* The text of a line, as llvm-dis prints it:
\*   @name = [qual ]global i8 0     define [qual ]i8 @name() {     declare i8 @name()
Render(l) ==
    CASE l.kind = "global" ->
           <<"@">> \o l.name \o <<" ", "=", " ">> \o Spaced(l.qual) \o W_global
             \o <<" ">> \o W_type \o <<" ", "0">>
      [] l.kind = "define" ->
           W_define \o <<" ">> \o Spaced(l.qual) \o W_type \o <<" ", "@">> \o l.name
             \o <<"(", ")", " ", "{">>
      [] OTHER ->
           W_declare \o <<" ">> \o W_type \o <<" ", "@">> \o l.name \o <<"(", ")">>

\* \s of the regular expressions.
IsSpace(c) == c \in {" ", "\t", "\n", "\r"}

\* The positions from `from` on where text holds one of chars; Len(text) + 1 closes
\* the set.
PositionsOf(text, from, chars) ==
    {p \in from .. Len(text) : text[p] \in chars} \cup {Len(text) + 1}

\* (?!internal|private|appending|external) fails at `from`.
LookaheadVariable(text, from) ==
    \E w \in {W_internal, W_private, W_appending, W_external} : StartsWith(text, from, w)

\* (?!internal|private) fails at `from`.
LookaheadFunction(text, from) ==
    \E w \in {W_internal, W_private} : StartsWith(text, from, w)

\* The first alternative of catchall,
\*   @(?P<variable_name>\S+) = (?!internal|private|appending|external).*
\* matched at the start of text: <<name>>, or <<>> when it does not match.  \S+
\* ends before the first blank, which must open " = ".
MatchVariable(text) ==
    IF Len(text) < 2 \/ text[1] # "@" THEN <<>>
    ELSE LET sp == Min({p \in 2 .. Len(text) : IsSpace(text[p])} \cup {Len(text) + 1})
         IN  IF sp > 2 /\ StartsWith(text, sp, <<" ", "=", " ">>)
                /\ ~LookaheadVariable(text, sp + 3)
             THEN <<SubSeq(text, 2, sp - 1)>>
             ELSE <<>>

\* The second alternative of catchall,
\*   define (?!internal|private)[^@]*@(?P<function_name>[^("]+|"[^"]*")\(.*
\* matched at the start of text: <<name>>, or <<>>.  [^@]* ends at the first @;
\* the name is either the run of characters other than ( and " that a ( follows,
\* or a quoted string (quotes included) that a ( follows.
MatchFunction(text) ==
    IF ~StartsWith(text, 1, W_define \o <<" ">>) \/ LookaheadFunction(text, 8) THEN <<>>
    ELSE LET at == Min(PositionsOf(text, 8, {"@"}))
             e  == Min(PositionsOf(text, at + 1, {"(", "\""}))
             q  == Min(PositionsOf(text, at + 2, {"\""}))
         IN  IF at > Len(text) THEN <<>>
             ELSE IF e > at + 1 /\ e <= Len(text) /\ text[e] = "("
             THEN <<SubSeq(text, at + 1, e - 1)>>
             ELSE IF at + 1 <= Len(text) /\ text[at + 1] = "\"" /\ q < Len(text)
                     /\ text[q + 1] = "("
             THEN <<SubSeq(text, at + 1, q)>>
             ELSE <<>>

\* re.match(catchall, line): the captured name, or <<>> when the line does not match.
MatchCatchall(text) ==
    IF MatchVariable(text) # <<>> THEN MatchVariable(text) ELSE MatchFunction(text)

\* The number of leading underscores of name: ([_]*)
LeadingUnderscores(name) ==
    Min({k \in 0 .. Len(name) - 1 : name[k + 1] # "_"} \cup {Len(name)})

\* sub of rename: "{0}{2}_{1}".format(*re.match(r"([_]*)(.*)", f).groups(), prefix)
sub(name, prefix) ==
    LET u == LeadingUnderscores(name)
    IN  SubSeq(name, 1, u) \o prefix \o <<"_">> \o SubSeq(name, u + 1, Len(name))

\* mapping[key] = value on a dict kept as its (key, value) pairs in insertion order.
DictSet(d, key, value) ==
    IF \E k \in 1 .. Len(d) : d[k][1] = key
    THEN [k \in 1 .. Len(d) |-> IF d[k][1] = key THEN <<key, value>> ELSE d[k]]
    ELSE Append(d, <<key, value>>)

DictKeys(d) == {d[k][1] : k \in 1 .. Len(d)}

DictGet(d, key) == d[CHOOSE k \in 1 .. Len(d) : d[k][1] = key][2]

\* The file llvm-dis writes for a module, line by line.
Text(src) == [k \in 1 .. Len(src) |-> Render(src[k])]

RECURSIVE DetectLoop(_, _, _)
\* detect_names after the first n lines of the file src.
DetectLoop(src, prefix, n) ==
    IF n = 0 THEN <<>>
    ELSE LET d == DetectLoop(src, prefix, n - 1)
             m == MatchCatchall(src[n])
         IN  IF m = <<>> THEN d
             ELSE DictSet(d, <<"@">> \o m[1], <<"@">> \o sub(m[1], prefix))

\* detect_names(src, sub) with the sub of rename(dest, src, prefix).
detect_names(src, prefix) == DetectLoop(src, prefix, Len(src))

\* The first key of the mapping names, in dict order, that text holds at position at; 0 if
\* none does.  This is what the alternation '|'.join(map(re.escape, mapping))
\* matches at that position: the alternatives are tried in order.
FirstKeyAt(text, at, names) ==
    Min({k \in 1 .. Len(names) : StartsWith(text, at, names[k][1])} \cup {Len(names) + 1})

RECURSIVE SubstituteFrom(_, _, _)
\* regex_match_symbols.sub(lambda match: mapping[match.group(0)], line) from
\* position from on.  Every key begins with "@", so a match begins at an "@".
SubstituteFrom(text, from, names) ==
    LET at == Min(PositionsOf(text, from, {"@"}))
    IN  IF at > Len(text) THEN SubSeq(text, from, Len(text))
        ELSE LET k == FirstKeyAt(text, at, names)
             IN  IF k > Len(names)
                 THEN SubSeq(text, from, at) \o SubstituteFrom(text, at + 1, names)
                 ELSE SubSeq(text, from, at - 1) \o names[k][2]
                        \o SubstituteFrom(text, at + Len(names[k][1]), names)

\* substitute(dest, src, mapping) for a non-empty mapping: the lines written to
\* dest.  content.split('\n') of a file that ends with a newline ends with an empty
\* string, which is printed as one more, empty, line.
substitute(src, names) ==
    [k \in 1 .. Len(src) |-> SubstituteFrom(src[k], 1, names)] \o << <<>> >>

\* rename(dest, src, prefix): mapping = detect_names(src, sub)
DetectNames ==
    /\ rpc = "start"
    /\ ir_mapping' = detect_names(ir_text, ir_prefix)
    /\ rpc' = "detected"
    /\ UNCHANGED <<ir_src, ir_text, ir_prefix, ir_out, ir_raised, ir_done, ir_queue>>
    /\ UNCHANGED notRenameVars

\* rename(dest, src, prefix): substitute(dest, src, mapping).  With an empty
\* mapping the regular expression is empty, matches the empty string and the
\* lambda raises KeyError(''); dest was opened for writing and stays empty.
Substitute ==
    /\ rpc = "detected"
    /\ IF ir_mapping = <<>>
       THEN /\ ir_out' = <<>>
            /\ ir_raised' = "KeyError"
            /\ rpc' = "raised"
       ELSE /\ ir_out' = substitute(ir_text, ir_mapping)
            /\ rpc' = "substituted"
            /\ UNCHANGED ir_raised
    /\ UNCHANGED <<ir_src, ir_text, ir_prefix, ir_mapping, ir_done, ir_queue>>
    /\ UNCHANGED notRenameVars

\* return mapping: the caller has the mapping; another rename may follow.
RenameDone ==
    /\ rpc = "substituted"
    /\ rpc' = "done"
    /\ UNCHANGED <<ir_src, ir_text, ir_prefix, ir_mapping, ir_out, ir_raised, ir_done,
                   ir_queue>>
    /\ UNCHANGED notRenameVars

\* The file rename wrote is renamed again, with the same prefix.
RenameAgain ==
    /\ rpc = "done"
    /\ ir_done = <<>>
    /\ ir_done' = <<[prefix |-> ir_prefix, mapping |-> ir_mapping, out |-> ir_out]>>
    /\ ir_text' = ir_out
    /\ ir_mapping' = <<>>
    /\ ir_out' = <<>>
    /\ rpc' = "start"
    /\ UNCHANGED <<ir_src, ir_prefix, ir_raised, ir_queue>>
    /\ UNCHANGED notRenameVars

\* The blob of the next library is renamed, with the name of that library.
NextLibrary ==
    /\ rpc = "done"
    /\ ir_queue # <<>>
    /\ ir_done' = Append(ir_done,
                         [prefix |-> ir_prefix, mapping |-> ir_mapping, out |-> ir_out])
    /\ ir_src' = Head(ir_queue).src
    /\ ir_text' = Text(Head(ir_queue).src)
    /\ ir_prefix' = Head(ir_queue).prefix
    /\ ir_queue' = Tail(ir_queue)
    /\ ir_mapping' = <<>>
    /\ ir_out' = <<>>
    /\ rpc' = "start"
    /\ UNCHANGED ir_raised
    /\ UNCHANGED notRenameVars

\* One module and one prefix.
RenameInit ==
    /\ \E n \in 1 .. MaxLines : ir_src \in [1 .. n -> IRLines]
    /\ ir_text = Text(ir_src)
    /\ ir_prefix \in Prefixes
    /\ ir_mapping = <<>>
    /\ ir_out = <<>>
    /\ ir_raised = "none"
    /\ ir_done = <<>>
    /\ ir_queue = <<>>
    /\ rpc = "start"

\* The lines of the blobs of two libraries: function definitions.
LibraryLines == [kind : {"define"}, qual : {<<>>}, name : Names]

\* Two libraries with distinct names, each with its blob.
RenameInitLibraries ==
    /\ \E n \in 1 .. MaxLibraryLines : ir_src \in [1 .. n -> LibraryLines]
    /\ ir_text = Text(ir_src)
    /\ ir_prefix \in Prefixes
    /\ ir_mapping = <<>>
    /\ ir_out = <<>>
    /\ ir_raised = "none"
    /\ ir_done = <<>>
    /\ \E n \in 1 .. MaxLibraryLines :
         \E src \in [1 .. n -> LibraryLines] :
           \E prefix \in Prefixes \ {ir_prefix} :
             ir_queue = <<[src |-> src, prefix |-> prefix]>>
    /\ rpc = "start"

RenameIdle ==
    /\ ir_src = <<>>
    /\ ir_text = <<>>
    /\ ir_prefix = <<>>
    /\ ir_mapping = <<>>
    /\ ir_out = <<>>
    /\ ir_raised = "none"
    /\ ir_done = <<>>
    /\ ir_queue = <<>>
    /\ rpc = "parked"

RenameNext ==
    \/ DetectNames
    \/ Substitute
    \/ RenameDone
    \/ RenameAgain

RenameLibrariesNext ==
    \/ DetectNames
    \/ Substitute
    \/ RenameDone
    \/ NextLibrary

-----------------------------------------------------------------------------
(* The library builder: prebuild.py *)

\* The C sources of the library.
SourceFiles == {1, 2}

\* lib.name, the rename prefix.
LibName == <<"p">>

\* dest of pre_compile: os.path.join(builddir, n.rsplit('.', 1)[0] + '.ll')
Dest(src) == <<"ll", src>>

\* target of inject_wrappers: builddir/wrapper.ll
WrapperLL == <<"ll", 0>>

\* The functions a wrapper config may list.
ConfigFunctions == {<<"s">>, <<"s", "t">>}

\* The IR the compiler produces: source 1 defines the function s, source 2 the
\* global st, the call wrappers define the function le.
FileIR(file) ==
    CASE file = Dest(1) -> <<[kind |-> "define", qual |-> <<>>, name |-> <<"s">>]>>
      [] file = Dest(2) -> <<[kind |-> "global", qual |-> <<>>, name |-> <<"s", "t">>]>>
      [] OTHER          -> <<[kind |-> "define", qual |-> <<>>, name |-> <<"l", "e">>]>>

\* Compiler children of the builder: they exit with 0 or 1.
BuilderChildren == [returncode : {0, 1}, stderr : {<<>>}]

NoTarget == [state |-> "absent", lines |-> <<>>]

NoMapFile == [exists |-> FALSE, mapping |-> <<>>]

EffectiveRebuildIgnoresState(rebuild, state) == rebuild

\* pre_compile: rebuild, or included_files.json cannot be opened or parsed and the
\* except clause calls pre_compile(rebuild=True).
EffectiveRebuild(rebuild, state) == rebuild \/ state # "list"

RECURSIVE WorkSetAll(_, _, _)
WorkSetAll(sources, old_files, n) ==
    IF n = 0 THEN <<>>
    ELSE DictSet(WorkSetAll(sources, old_files, n - 1), sources[n], Dest(sources[n]))

RECURSIVE WorkSet(_, _, _)
\* new_files = {src: dest(src) for src in sources if dest(src) not in old_files},
\* over the first n sources.
WorkSet(sources, old_files, n) ==
    IF n = 0 THEN <<>>
    ELSE LET d == WorkSet(sources, old_files, n - 1)
         IN  IF Dest(sources[n]) \in Range(old_files) THEN d
             ELSE DictSet(d, sources[n], Dest(sources[n]))

\* llvm-link: the module holding the lines of every input, in order.
LinkedLines(files) == Concat([k \in 1 .. Len(files) |-> FileIR(files[k])])

\* The functions of config['functions'] whose key '@' + f the mapping lacks.
MissingFunctions(functions, names) ==
    SelectSeq(functions, LAMBDA f : (<<"@">> \o f) \notin DictKeys(names))

IntegrityLogErrorPerFunction(functions, names) ==
    LET missing == MissingFunctions(functions, names)
    IN  Concat([k \in 1 .. Len(missing) |->
                   <<<<"warning", "missing function", missing[k]>>,
                     <<"error", "integrity check failed", <<>>>>>>])
        \o (IF missing = <<>> THEN <<<<"info", "integrity check passed", <<>>>>>> ELSE <<>>)

\* The integrity check of run: a warning for every missing function, then one
\* error if any is missing, else the info "integrity check passed".
IntegrityLog(functions, names) ==
    LET missing == MissingFunctions(functions, names)
    IN  [k \in 1 .. Len(missing) |-> <<"warning", "missing function", missing[k]>>]
        \o (IF missing = <<>>
            THEN <<<<"info", "integrity check passed", <<>>>>>>
            ELSE <<<<"error", "integrity check failed", <<>>>>>>)

\* The locals of a run that has not started or has ended.
NoLocals ==
    /\ p_loaded = "none"
    /\ p_old_files = <<>>
    /\ p_new_files = <<>>
    /\ p_children = <<>>
    /\ p_files = <<>>
    /\ p_linked = <<>>
    /\ p_ll = <<>>
    /\ p_mapping = <<>>

\* Builder.invoke(lib, config, rebuild)
RunCall ==
    /\ ppc = "idle"
    /\ p_rebuild' \in BOOLEAN
    /\ p_log' = <<>>
    /\ p_failed_at' = "none"
    /\ ppc' = "pre_compile"
    /\ UNCHANGED <<p_sources, p_wrappers, p_functions, p_included, p_builddir, p_target,
                   p_mapfile, p_loaded, p_old_files, p_new_files, p_children, p_files,
                   p_linked, p_ll, p_mapping>>
    /\ UNCHANGED notPrebuildVars

\* files = self.pre_compile(rebuild): the load of included_files.json (or the wipe
\* of builddir), the work set, compile_collection, the write of the new list.  A
\* file holding a JSON value that is no list loads, and old_files + compiled_files
\* raises TypeError once the work set is compiled.
PreCompile ==
    /\ ppc = "pre_compile"
    /\ p_loaded' = p_included.state
    /\ LET wipe  == EffectiveRebuild(p_rebuild, p_included.state)
           old   == IF wipe THEN <<>> ELSE p_included.files
           work  == WorkSet(p_sources, old, Len(p_sources))
       IN  \E children \in [1 .. Len(work) -> BuilderChildren] :
             LET got == compile_collection(work, children)
                 all == old \o got.files
             IN  /\ p_old_files' = old
                 /\ p_new_files' = work
                 /\ p_children' = children
                 /\ p_builddir' = (IF wipe THEN {} ELSE p_builddir) \cup Range(got.files)
                 /\ p_target' = IF wipe THEN NoTarget ELSE p_target
                 /\ p_mapfile' = IF wipe THEN NoMapFile ELSE p_mapfile
                 /\ IF ~wipe /\ p_included.state = "object"
                    THEN /\ p_failed_at' = "pre_compile"
                         /\ ppc' = "failed"
                         /\ UNCHANGED <<p_included, p_files>>
                    ELSE /\ p_included' = [state |-> "list", files |-> all]
                         /\ p_files' = all
                         /\ ppc' = "inject"
                         /\ UNCHANGED p_failed_at
    /\ UNCHANGED <<p_sources, p_wrappers, p_functions, p_rebuild, p_linked, p_ll,
                   p_mapping, p_log>>
    /\ UNCHANGED notPrebuildVars

\* if config['wrappers']: files.append(self.inject_wrappers(w))
InjectWrappers ==
    /\ ppc = "inject"
    /\ IF p_wrappers
       THEN \E child \in BuilderChildren :
              IF compile_file(child).raised = "none"
              THEN /\ p_files' = Append(p_files, WrapperLL)
                   /\ p_builddir' = p_builddir \cup {WrapperLL}
                   /\ ppc' = "link"
                   /\ UNCHANGED p_failed_at
              ELSE /\ p_failed_at' = "inject"
                   /\ ppc' = "failed"
                   /\ UNCHANGED <<p_files, p_builddir>>
       ELSE /\ ppc' = "link"
            /\ UNCHANGED <<p_files, p_builddir, p_failed_at>>
    /\ UNCHANGED <<p_sources, p_wrappers, p_functions, p_included, p_target, p_mapfile,
                   p_rebuild, p_loaded, p_old_files, p_new_files, p_children, p_linked,
                   p_ll, p_mapping, p_log>>
    /\ UNCHANGED notPrebuildVars

\* warn = compiler.link(self.lib.target, files), and the warning logged when the
\* linker wrote to stderr.
Link ==
    /\ ppc = "link"
    /\ p_linked' = p_files
    /\ \E child \in ChildResults :
         LET warn == link(child)
         IN  IF warn.raised = "none"
             THEN /\ p_target' = [state |-> "linked", lines |-> LinkedLines(p_files)]
                  /\ p_log' = IF Truthy(warn)
                              THEN Append(p_log, <<"warning", "linker warning", <<>>>>)
                              ELSE p_log
                  /\ ppc' = "disassemble"
                  /\ UNCHANGED p_failed_at
             ELSE /\ p_failed_at' = "link"
                  /\ ppc' = "failed"
                  /\ UNCHANGED <<p_target, p_log>>
    /\ UNCHANGED <<p_sources, p_wrappers, p_functions, p_included, p_builddir, p_mapfile,
                   p_rebuild, p_loaded, p_old_files, p_new_files, p_children, p_files,
                   p_ll, p_mapping>>
    /\ UNCHANGED notPrebuildVars

\* Builder.rename: compiler.disassemble(file_ll, self.lib.target)
RenameDisassemble ==
    /\ ppc = "disassemble"
    /\ \E child \in BuilderChildren :
         IF disassemble(child).raised = "none"
         THEN /\ p_ll' = p_target.lines
              /\ ppc' = "assemble"
              /\ UNCHANGED p_failed_at
         ELSE /\ p_failed_at' = "disassemble"
              /\ ppc' = "failed"
              /\ UNCHANGED p_ll
    /\ UNCHANGED <<p_sources, p_wrappers, p_functions, p_included, p_builddir, p_target,
                   p_mapfile, p_rebuild, p_loaded, p_old_files, p_new_files, p_children,
                   p_files, p_linked, p_mapping, p_log>>
    /\ UNCHANGED notPrebuildVars

\* Builder.rename: mapping = rename(file_ll_rn, file_ll, self.lib.name), the copy
\* to <target>.unrenamed, compiler.assemble(self.lib.target, file_ll_rn).
RenameAssemble ==
    /\ ppc = "assemble"
    /\ \E child \in BuilderChildren :
         IF assemble(child).raised = "none"
         THEN /\ p_mapping' = detect_names(Text(p_ll), LibName)
              /\ p_target' = [p_target EXCEPT !.state = "renamed"]
              /\ ppc' = "write_mapping"
              /\ UNCHANGED p_failed_at
         ELSE /\ p_failed_at' = "assemble"
              /\ ppc' = "failed"
              /\ UNCHANGED <<p_mapping, p_target>>
    /\ UNCHANGED <<p_sources, p_wrappers, p_functions, p_included, p_builddir, p_mapfile,
                   p_rebuild, p_loaded, p_old_files, p_new_files, p_children, p_files,
                   p_linked, p_ll, p_log>>
    /\ UNCHANGED notPrebuildVars

\* with open(self.lib.rename_mapping, 'w') as f: f.write(json.dumps(mapping))
WriteMapping ==
    /\ ppc = "write_mapping"
    /\ p_mapfile' = [exists |-> TRUE, mapping |-> p_mapping]
    /\ ppc' = "integrity"
    /\ UNCHANGED <<p_sources, p_wrappers, p_functions, p_included, p_builddir, p_target,
                   p_rebuild, p_loaded, p_old_files, p_new_files, p_children, p_files,
                   p_linked, p_ll, p_mapping, p_log, p_failed_at>>
    /\ UNCHANGED notPrebuildVars

\* The integrity check and the end of run.
IntegrityCheck ==
    /\ ppc = "integrity"
    /\ p_log' = p_log \o IntegrityLog(p_functions, p_mapping)
    /\ ppc' = "done"
    /\ UNCHANGED <<p_sources, p_wrappers, p_functions, p_included, p_builddir, p_target,
                   p_mapfile, p_rebuild, p_loaded, p_old_files, p_new_files, p_children,
                   p_files, p_linked, p_ll, p_mapping, p_failed_at>>
    /\ UNCHANGED notPrebuildVars

\* run has returned or raised: its locals are gone.
RunReturn ==
    /\ ppc \in {"done", "failed"}
    /\ p_loaded' = "none"
    /\ p_old_files' = <<>>
    /\ p_new_files' = <<>>
    /\ p_children' = <<>>
    /\ p_files' = <<>>
    /\ p_linked' = <<>>
    /\ p_ll' = <<>>
    /\ p_mapping' = <<>>
    /\ ppc' = "idle"
    /\ UNCHANGED <<p_sources, p_wrappers, p_functions, p_included, p_builddir, p_target,
                   p_mapfile, p_rebuild, p_log, p_failed_at>>
    /\ UNCHANGED notPrebuildVars

\* Between two builds included_files.json is lost ("absent"), damaged so that
\* json.loads raises ("malformed"), or replaced by a JSON value that is no list
\* ("object").
DamageIncludedFiles ==
    /\ ppc = "idle"
    /\ p_included.state = "list"
    /\ \E st \in {"absent", "malformed", "object"} :
          p_included' = [state |-> st, files |-> <<>>]
    /\ UNCHANGED <<p_sources, p_wrappers, p_functions, p_builddir, p_target, p_mapfile,
                   p_rebuild, p_loaded, p_old_files, p_new_files, p_children, p_files,
                   p_linked, p_ll, p_mapping, p_log, p_failed_at, ppc>>
    /\ UNCHANGED notPrebuildVars

\* Between two builds the traversals of the library or the folders they name
\* change: lib.sources() yields another sequence of sources.
ChangeSources ==
    /\ ppc = "idle"
    /\ \E n \in 0 .. MaxTraversal :
          \E sources \in [1 .. n -> SourceFiles] :
              /\ sources # p_sources
              /\ p_sources' = sources
    /\ UNCHANGED <<p_wrappers, p_functions, p_included, p_builddir, p_target, p_mapfile,
                   p_rebuild, p_loaded, p_old_files, p_new_files, p_children, p_files,
                   p_linked, p_ll, p_mapping, p_log, p_failed_at, ppc>>
    /\ UNCHANGED notPrebuildVars

\* A library that was never built.
PrebuildInit ==
    /\ \E n \in 0 .. MaxTraversal : p_sources \in [1 .. n -> SourceFiles]
    /\ p_wrappers \in BOOLEAN
    /\ \E n \in 0 .. Cardinality(ConfigFunctions) :
          /\ p_functions \in [1 .. n -> ConfigFunctions]
          /\ NoDuplicates(p_functions)
    /\ p_included = [state |-> "absent", files |-> <<>>]
    /\ p_builddir = {}
    /\ p_target = NoTarget
    /\ p_mapfile = NoMapFile
    /\ p_rebuild = FALSE
    /\ NoLocals
    /\ p_log = <<>>
    /\ p_failed_at = "none"
    /\ ppc = "idle"

PrebuildIdle ==
    /\ p_sources = <<>>
    /\ p_wrappers = FALSE
    /\ p_functions = <<>>
    /\ p_included = [state |-> "absent", files |-> <<>>]
    /\ p_builddir = {}
    /\ p_target = NoTarget
    /\ p_mapfile = NoMapFile
    /\ p_rebuild = FALSE
    /\ NoLocals
    /\ p_log = <<>>
    /\ p_failed_at = "none"
    /\ ppc = "parked"

PrebuildNext ==
    \/ RunCall
    \/ PreCompile
    \/ InjectWrappers
    \/ Link
    \/ RenameDisassemble
    \/ RenameAssemble
    \/ WriteMapping
    \/ IntegrityCheck
    \/ RunReturn
    \/ DamageIncludedFiles

\* The builds of a library whose sources change between builds.
PrebuildSourcesNext ==
    \/ RunCall
    \/ PreCompile
    \/ InjectWrappers
    \/ Link
    \/ RenameDisassemble
    \/ RenameAssemble
    \/ WriteMapping
    \/ IntegrityCheck
    \/ RunReturn
    \/ ChangeSources

-----------------------------------------------------------------------------
(* C declarations: language.py *)

W_void == <<"v", "o", "i", "d">>

W_int == <<"i", "n", "t">>

W_char == <<"c", "h", "a", "r">>

W_const_ == <<"c", "o", "n", "s", "t", " ">>

W_unnamed == <<"u", "n", "n", "a", "m", "e", "d">>

W_ret_ == <<"r", "e", "t", "_">>

\* Function names.
FunctionNames == {<<"f">>, <<"f", "n">>}

\* Return types as written in a declaration, the blank or " *" before the name
\* included.
ReturnTexts == {<<"v", "o", "i", "d", " ">>, <<"i", "n", "t", " ">>, <<"c", "h", "a", "r", " ">>, <<"c", "h", "a", "r", " ", "*">>, <<"v", "o", "i", "d", " ", "*">>}

\* Arguments as written in a declaration.
ArgTexts ==
    {<<"i", "n", "t", " ", "a">>, <<"c", "h", "a", "r", " ", "*", "s">>, <<"c", "o", "n", "s", "t", " ", "c", "h", "a", "r", " ", "*", "s">>, <<"c", "o", "n", "s", "t", " ", "c", "o", "n", "s", "t", " ", "i", "n", "t", " ", "a">>,
     <<"v", "o", "i", "d", " ", "*", "p">>, <<"c", "h", "a", "r", " ", "*", "*", "v">>}

\* The text between the parentheses: "void", or up to MaxArgs arguments joined
\* by ", ".
RECURSIVE JoinComma(_)
JoinComma(texts) ==
    IF Len(texts) = 0 THEN <<>>
    ELSE IF Len(texts) = 1 THEN texts[1]
    ELSE texts[1] \o <<",", " ">> \o JoinComma(Tail(texts))

ArgListTexts ==
    {W_void} \cup {JoinComma(a) : a \in UNION {[1 .. n -> ArgTexts] : n \in 0 .. MaxArgs}}

\* The declarations handed to the parser.
Declarations ==
    {r \o <<"f">> \o <<"(">> \o a \o <<")", ";">> : r \in ReturnTexts, a \in ArgListTexts}
    \cup {W_void \o <<" ">> \o n \o <<"(">> \o a \o <<")", ";">> :
            n \in FunctionNames, a \in {<<>>, W_void}}

\* default_array_size: unknown (-1), or the array width of a test (8).
DefaultArraySizes == {-1, 8}

\* The length of the run of "*" that text holds from position from on.
StarRun(text, from) ==
    Min({k \in 0 .. Len(text) : from + k > Len(text) \/ text[from + k] # "*"})

\* The positions e at which group 1 of
\*   func_decl = (.*)\s([*]*)([^(]*)\(([^)]*)\);        (re.DOTALL)
\* may end: a blank follows, the first "(" after the blank opens the arguments,
\* and the first ")" after it is followed by ";".
FuncDeclEnds(text) ==
    {e \in 0 .. Len(text) - 1 :
        /\ IsSpace(text[e + 1])
        /\ LET p == Min(PositionsOf(text, e + 2, {"("}))
               q == Min(PositionsOf(text, p + 1, {")"}))
           IN  p <= Len(text) /\ q < Len(text) /\ text[q + 1] = ";"}

\* func_decl.match(line).groups(): (.*) is greedy, so group 1 ends as late as it
\* can; [*]* takes the whole run of stars, [^(]* the rest up to the parenthesis.
FuncDeclGroups(text) ==
    LET e == Max(FuncDeclEnds(text))
        p == Min(PositionsOf(text, e + 2, {"("}))
        q == Min(PositionsOf(text, p + 1, {")"}))
        n == StarRun(text, e + 2)
    IN  [ret  |-> SubSeq(text, 1, e),
         ptr  |-> n,
         name |-> SubSeq(text, e + 2 + n, p - 1),
         args |-> SubSeq(text, p + 1, q - 1)]

RECURSIVE SplitComma(_)
\* args.split(', ')
SplitComma(text) ==
    LET at == {p \in 1 .. Len(text) - 1 : text[p] = "," /\ text[p + 1] = " "}
    IN  IF at = {} THEN <<text>>
        ELSE <<SubSeq(text, 1, Min(at) - 1)>>
               \o SplitComma(SubSeq(text, Min(at) + 2, Len(text)))

\* Variable(type, name, ptr_depth, array_size, value)
Variable(type, name, ptr_depth, array_size) ==
    [type |-> type, name |-> name, ptr_depth |-> ptr_depth, array_size |-> array_size,
     value |-> <<>>]

\* Where group 1 of  (?:const )?(.*)\s([*]*)([^;]*)[;]?  starts and which blank
\* ends it: <<start, blank>>, or <<>> when the line holds no blank the expression
\* can use.  "const " is skipped if a blank follows later; (.*) is greedy.
VariableMatch(line) ==
    LET blanks(from) == {e \in from .. Len(line) : IsSpace(line[e])}
    IN  IF StartsWith(line, 1, W_const_) /\ blanks(Len(W_const_) + 1) # {}
        THEN <<Len(W_const_) + 1, Max(blanks(Len(W_const_) + 1))>>
        ELSE IF blanks(1) # {} THEN <<1, Max(blanks(1))>>
        ELSE <<>>

\* Variable.parse(line, array_size); re.match returns None for a line without a
\* blank and .groups() raises AttributeError.
VariableParse(line, array_size) ==
    LET m == VariableMatch(line)
    IN  IF m = <<>> THEN [raised |-> "AttributeError"]
        ELSE LET n    == StarRun(line, m[2] + 1)
                 stop == Min(PositionsOf(line, m[2] + 1 + n, {";"}))
             IN  [raised |-> "none",
                  var |-> Variable(SubSeq(line, m[1], m[2] - 1),
                                   SubSeq(line, m[2] + 1 + n, stop - 1),
                                   n, IF n > 0 THEN array_size ELSE -1)]

\* Signature.parse(line, default_array_size), by value: [raised], or
\* [raised, name, args, ret].
SignatureParse(line, default_array_size) ==
    IF FuncDeclEnds(line) = {} THEN [raised |-> "AttributeError"]
    ELSE LET g     == FuncDeclGroups(line)
             texts == IF g.args = <<>> THEN <<>> ELSE SplitComma(g.args)
             vs    == [k \in 1 .. Len(texts) |-> VariableParse(texts[k], default_array_size)]
         IN  IF \E k \in 1 .. Len(vs) : vs[k].raised # "none"
             THEN [raised |-> "AttributeError"]
             ELSE [raised |-> "none",
                   name   |-> g.name,
                   args   |-> [k \in 1 .. Len(vs) |-> vs[k].var],
                   ret    |-> Variable(g.ret, W_unnamed, g.ptr, -1)]

\* Variable.type_str
type_str(v) ==
    IF v.ptr_depth # 0
    THEN v.type \o <<" ">> \o [k \in 1 .. v.ptr_depth |-> "*"]
    ELSE v.type

\* Variable.__str__
str(v) ==
    IF v.ptr_depth # 0 THEN type_str(v) \o v.name ELSE type_str(v) \o <<" ">> \o v.name

\* The head of declaration and definition: return type, name, arguments.
Header(f) ==
    (IF f.ret.ptr_depth > 0 THEN type_str(f.ret) ELSE type_str(f.ret) \o <<" ">>)
      \o f.name \o <<"(">> \o JoinComma([k \in 1 .. Len(f.args) |-> str(f.args[k])])
      \o <<")">>

\* Function.declaration
declaration(f) == Header(f) \o <<";">>

\* Function.definition(body=''): the head, "{", the one empty line of the body
\* behind a tab, "}".
definition(f) == Header(f) \o <<"\n", "{", "\n", "\t", "\n", "}">>

\* '&' * (a.ptr_depth - 1): the empty string when the count is 0 or negative.
Ampersands(v) == [k \in 1 .. v.ptr_depth - 1 |-> "&"]

\* Function.call
call(f) ==
    LET args == JoinComma([k \in 1 .. Len(f.args) |-> Ampersands(f.args[k]) \o f.args[k].name])
    IN  IF f.ret.type = W_void /\ f.ret.ptr_depth = 0
        THEN f.name \o <<"(">> \o args \o <<")", ";">>
        ELSE f.ret.name \o <<" ", "=", " ">> \o f.name \o <<"(">> \o args \o <<")", ";">>

\* Variable.__eq__
VariableEq(a, b) ==
    /\ a.name = b.name
    /\ a.type = b.type
    /\ a.ptr_depth = b.ptr_depth
    /\ a.array_size = b.array_size

\* Signature.__eq__: zip stops at the shorter argument list.
SignatureEq(a, b) ==
    /\ a.name = b.name
    /\ VariableEq(a.ret, b.ret)
    /\ \A k \in 1 .. Min({Len(a.args), Len(b.args)}) : VariableEq(a.args[k], b.args[k])

\* The Signature or Function with every Variable id replaced by the object it
\* names in heap.
DerefIn(heap, f) ==
    [name |-> f.name,
     args |-> [k \in 1 .. Len(f.args) |-> heap[f.args[k]]],
     ret  |-> heap[f.ret]]

\* The ids of the Variable objects a Signature or Function refers to.
ObjectsOf(f) == {f.ret} \cup Range(f.args)

ForkSharesArguments(heap, sig, name) ==
    [heap |-> Append(heap, [heap[sig.ret] EXCEPT !.name = W_ret_ \o name]),
     fn   |-> [name |-> name, args |-> sig.args, ret |-> Len(heap) + 1]]

\* Signature.fork(name): copy.copy makes a new object with the attributes of the
\* old one; the copy of ret is renamed, every argument is copied.
fork(heap, sig, name) ==
    [heap |-> Append(heap, [heap[sig.ret] EXCEPT !.name = W_ret_ \o name])
                \o [k \in 1 .. Len(sig.args) |-> heap[sig.args[k]]],
     fn   |-> [name |-> name,
               args |-> [k \in 1 .. Len(sig.args) |-> Len(heap) + 1 + k],
               ret  |-> Len(heap) + 1]]

\* The names a signature is forked under: its own, or another (the name the
\* function has in the renamed blob of a library).
ForkNames(sig) == {sig.name, <<"g">>}

\* The attributes a caller assigns to a Variable of a fork, and the value each
\* gets: rename("x"), value = "1", array_size = 3.
Assigned == [name |-> <<"x">>, value |-> <<"1">>, array_size |-> 3]

\* Declarations whose forks are mutated.
ForkDeclarations == {<<"c", "h", "a", "r", " ", "*", "f", "(", "c", "h", "a", "r", " ", "*", "s", ",", " ", "i", "n", "t", " ", "a", ")", ";">>, <<"i", "n", "t", " ", "f", "(", "i", "n", "t", " ", "a", ")", ";">>, <<"v", "o", "i", "d", " ", "f", "(", ")", ";">>}

\* Declarations a parsed signature is compared with.
OtherDeclarations ==
    {<<"i", "n", "t", " ", "f", "(", ")", ";">>, <<"i", "n", "t", " ", "f", "(", "i", "n", "t", " ", "a", ")", ";">>, <<"i", "n", "t", " ", "f", "(", "i", "n", "t", " ", "a", ",", " ", "c", "h", "a", "r", " ", "*", "s", ")", ";">>, <<"v", "o", "i", "d", " ", "f", "(", ")", ";">>}

\* self.__signature = language.Signature.parse(sgn, self.array_width)
Parse ==
    /\ lgpc = "start"
    /\ LET r == SignatureParse(lg_line, lg_default)
       IN  IF r.raised # "none"
           THEN /\ lg_raised' = r.raised
                /\ lgpc' = "raised"
                /\ UNCHANGED <<lg_heap, lg_sig, lg_parsed>>
           ELSE /\ lg_heap' = <<r.ret>> \o r.args
                /\ lg_sig' = [name |-> r.name,
                              args |-> [k \in 1 .. Len(r.args) |-> k + 1],
                              ret  |-> 1]
                /\ lg_parsed' = <<[name |-> r.name, args |-> r.args, ret |-> r.ret]>>
                /\ lgpc' = "parsed"
                /\ UNCHANGED lg_raised
    /\ UNCHANGED <<lg_line, lg_other, lg_default, lg_forks, lg_forked, lg_touched,
                   lg_emitted, lg_reparsed, lg_equal>>
    /\ UNCHANGED notLanguageVars

\* self.entries[lib.name] = self.signature.fork(name)
Fork ==
    /\ lgpc = "parsed"
    /\ Len(lg_forks) < MaxForks
    /\ \E name \in ForkNames(lg_sig) :
         LET r == fork(lg_heap, lg_sig, name)
         IN  /\ lg_heap' = r.heap
             /\ lg_forks' = Append(lg_forks, r.fn)
             /\ lg_forked' = Append(lg_forked, DerefIn(r.heap, r.fn))
    /\ UNCHANGED <<lg_line, lg_other, lg_default, lg_sig, lg_parsed, lg_touched,
                   lg_emitted, lg_reparsed, lg_equal, lg_raised, lgpc>>
    /\ UNCHANGED notLanguageVars

\* An attribute of the return variable or of an argument of a fork is assigned.
Mutate ==
    /\ lgpc = "parsed"
    /\ Cardinality(lg_touched) < MaxMutations
    /\ \E i \in 1 .. Len(lg_forks) :
         \E id \in ObjectsOf(lg_forks[i]) :
           \E attr \in DOMAIN Assigned :
             /\ <<i, id, attr>> \notin lg_touched
             /\ lg_heap' = [lg_heap EXCEPT ![id][attr] = Assigned[attr]]
             /\ lg_touched' = lg_touched \cup {<<i, id, attr>>}
    /\ UNCHANGED <<lg_line, lg_other, lg_default, lg_sig, lg_parsed, lg_forks, lg_forked,
                   lg_emitted, lg_reparsed, lg_equal, lg_raised, lgpc>>
    /\ UNCHANGED notLanguageVars

\* The declaration, the definition and the call of a fork are rendered, and the
\* declaration is parsed again.
Emit ==
    /\ lgpc = "parsed"
    /\ lg_emitted = <<>>
    /\ \E i \in 1 .. Len(lg_forks) :
         LET f == DerefIn(lg_heap, lg_forks[i])
         IN  /\ lg_emitted' = <<[fork |-> i, declaration |-> declaration(f),
                                 definition |-> definition(f), call |-> call(f)]>>
             /\ lg_reparsed' = <<SignatureParse(declaration(f), lg_default)>>
    /\ UNCHANGED <<lg_line, lg_other, lg_default, lg_heap, lg_sig, lg_parsed, lg_forks,
                   lg_forked, lg_touched, lg_equal, lg_raised, lgpc>>
    /\ UNCHANGED notLanguageVars

\* signature == other and other == signature, other being parsed from lg_other.
Compare ==
    /\ lgpc = "parsed"
    /\ lg_equal = <<>>
    /\ LET a == DerefIn(lg_heap, lg_sig)
           b == SignatureParse(lg_other, lg_default)
       IN  lg_equal' = <<SignatureEq(a, b), SignatureEq(b, a)>>
    /\ UNCHANGED <<lg_line, lg_other, lg_default, lg_heap, lg_sig, lg_parsed, lg_forks,
                   lg_forked, lg_touched, lg_emitted, lg_reparsed, lg_raised, lgpc>>
    /\ UNCHANGED notLanguageVars

\* What a caller that has parsed nothing yet holds.
LanguageBlank ==
    /\ lg_heap = <<>>
    /\ lg_sig = <<>>
    /\ lg_parsed = <<>>
    /\ lg_forks = <<>>
    /\ lg_forked = <<>>
    /\ lg_touched = {}
    /\ lg_emitted = <<>>
    /\ lg_reparsed = <<>>
    /\ lg_equal = <<>>
    /\ lg_raised = "none"

\* A declaration to parse, render and compare.
LanguageInit ==
    /\ lg_line \in Declarations
    /\ lg_other \in OtherDeclarations
    /\ lg_default \in DefaultArraySizes
    /\ LanguageBlank
    /\ lgpc = "start"

\* A declaration to parse and fork.
LanguageInitFork ==
    /\ lg_line \in ForkDeclarations
    /\ lg_other = <<>>
    /\ lg_default \in DefaultArraySizes
    /\ LanguageBlank
    /\ lgpc = "start"

LanguageIdle ==
    /\ lg_line = <<>>
    /\ lg_other = <<>>
    /\ lg_default = -1
    /\ LanguageBlank
    /\ lgpc = "parked"

LanguageNext ==
    \/ Parse
    \/ Fork
    \/ Emit
    \/ Compare

LanguageForkNext ==
    \/ Parse
    \/ Fork
    \/ Mutate

-----------------------------------------------------------------------------
(* Test preparation, array sweep and input emission: crafter.py *)

\* self.libs of the preparing TestHarness: the names of the libraries.
HarnessLibs == <<<<"a">>, <<"b">>>>

\* Per library whether lib.build.name_mapping holds the function: the first
\* library resolves it, the second raises KeyError.
HarnessMapped == <<TRUE, FALSE>>

\* The array widths a test assigns: none (0) and 8.
TestWidths == {0, 8}

\* self.function
HarnessFunction == <<"f">>

\* Arguments of the declarations a test works on; their names differ.
HarnessArgTexts ==
    {<<"i", "n", "t", " ", "a">>, <<"c", "h", "a", "r", " ", "*", "s">>, <<"v", "o", "i", "d", " ", "*", "p">>, <<"c", "h", "a", "r", " ", "*", "*", "v">>}

\* The declarations of HarnessFunction with 1 .. MaxHarnessArgs arguments.
HarnessDeclarations ==
    {<<"i", "n", "t", " ", "f", "(">> \o JoinComma(a) \o <<")", ";">> :
        a \in {b \in UNION {[1 .. n -> HarnessArgTexts] : n \in 1 .. MaxHarnessArgs} :
                 NoDuplicates(b)}}

\* The types define_input_fuzzing is asked for.
W_size_t == <<"s", "i", "z", "e", "_", "t">>

W_long == <<"l", "o", "n", "g">>

W_long_int == <<"l", "o", "n", "g", " ", "i", "n", "t">>

W_long_long == <<"l", "o", "n", "g", " ", "l", "o", "n", "g">>

W_long_long_int == <<"l", "o", "n", "g", " ", "l", "o", "n", "g", " ", "i", "n", "t">>

W_wint_t == <<"w", "i", "n", "t", "_", "t">>

FuzzTypes ==
    {W_int, W_size_t, W_char, W_long, W_long_int, W_long_long, W_long_long_int, W_wint_t,
     W_void, <<"d", "o", "u", "b", "l", "e">>, <<"u", "n", "s", "i", "g", "n", "e", "d", " ", "i", "n", "t">>}

\* The variables handed to define_input_fuzzing.
FuzzVariables ==
    {Variable(t, <<"x">>, d, IF d > 0 THEN w ELSE -1) :
        t \in FuzzTypes, d \in 0 .. 1, w \in {0, MaxArrayWidth}}

RECURSIVE FormatNat(_)
FormatNat(n) ==
    IF n < 10 THEN <<Digits[n + 1]>>
    ELSE FormatNat(n \div 10) \o <<Digits[(n % 10) + 1]>>

\* f"{n}" of an int.
FormatInt(n) == IF n < 0 THEN <<"-">> \o FormatNat(0 - n) ELSE FormatNat(n)

\* "A" * n: the empty string for n <= 0.
Repeat(c, n) == [k \in 1 .. n |-> c]

\* self.__signature = None
NoSignature == [raised |-> "unset"]

\* clean_state: self.testcases_fuzzing = {'default': ''}
DefaultTestcases == <<<<"default", <<>>>>>>

\* Variable.isptr
isptr(v) == v.ptr_depth > 0

\* range(2, m + 1, max(int(m * 0.2), 1)) as the list of its values.
SweepRange(m) ==
    LET step == Max({m \div 5, 1})
        n    == IF m < 2 THEN 0 ELSE ((m - 2) \div step) + 1
    IN  [k \in 1 .. n |-> 2 + (k - 1) * step]

\* resolve_function(name) of library k, or name when it raises KeyError; then
\* the name the entry of library k gets from the signature setter.
EntryName(k, mapped, name) ==
    IF mapped[k] THEN HarnessLibs[k] \o <<"_">> \o name ELSE name

\* The one element of a singleton set.
The(S) == CHOOSE r \in S : TRUE

\* The signature setter for a non-empty sgn: [signature, entries].
SetSignature(sgn, array_width, mapped) ==
    The({[signature |-> s,
          entries   |-> IF s.raised # "none" THEN <<>>
                        ELSE [k \in 1 .. Len(HarnessLibs) |-> EntryName(k, mapped, s.name)]] :
            s \in {SignatureParse(sgn, array_width)}})

\* generate_arguments: arguments_cache[arg.name] = arg for the arguments in order.
RECURSIVE generate_arguments(_, _)
generate_arguments(cache, args) ==
    IF args = <<>> THEN cache
    ELSE generate_arguments(DictSet(cache, Head(args).name, Head(args)), Tail(args))

\* define_assumptions: the assumptions appended for the cached arguments.
RECURSIVE define_assumptions(_, _)
define_assumptions(cache, array_width) ==
    IF cache = <<>> THEN <<>>
    ELSE LET arg == Head(cache)[2]
         IN  (IF isptr(arg) /\ arg.type = W_char
              THEN IF array_width # 0
                   THEN <<arg.name \o <<"[">> \o FormatInt(arg.array_size - 1) \o <<"]", " ", "=", "=", " ", "'", "\\", "0", "'">>>>
                   ELSE <<arg.name \o <<"[", "0", "]", " ", "=", "=", " ", "'", "\\", "0", "'">>>>
              ELSE <<>>)
             \o define_assumptions(Tail(cache), array_width)

\* _configure of a test (from_config: it assigns decl to self.signature):
\* [signature, entries].
Configure(signature, entries, array_width, from_config, decl, mapped) ==
    IF from_config THEN SetSignature(decl, array_width, mapped)
    ELSE [signature |-> signature, entries |-> entries]

\* if not self.signature: the signature of the man page, which ends in ";", plus
\* ";", and the entry names <lib.name>_lib_entry_<function>.
Fallback(configured, array_width, decl, mapped) ==
    IF configured.signature.raised = "unset"
    THEN The({[signature |-> f.signature,
               entries   |-> [k \in 1 .. Len(f.entries) |->
                                HarnessLibs[k] \o <<"_", "l", "i", "b", "_", "e", "n", "t", "r", "y", "_">>
                                    \o HarnessFunction]] :
                 f \in {SetSignature(decl \o <<";">>, array_width, mapped)}})
    ELSE configured

\* prepare on a harness holding signature and entries: clean_state, _configure,
\* the man-page fallback, generate_arguments and define_assumptions.  raised
\* names the exception Signature.parse ended prepare with.
prepare(signature, entries, array_width, from_config, decl, mapped) ==
    The({The({[raised          |-> fetched.signature.raised,
               signature       |-> IF fetched.signature.raised = "none"
                                   THEN fetched.signature ELSE signature,
               entries         |-> IF fetched.signature.raised = "none"
                                   THEN fetched.entries ELSE entries,
               arguments_cache |-> cache,
               testcases       |-> DefaultTestcases,
               assumptions     |-> define_assumptions(cache, array_width)] :
                 cache \in {IF fetched.signature.raised = "none"
                            THEN generate_arguments(<<>>, fetched.signature.args)
                            ELSE <<>>}}) :
           fetched \in {Fallback(Configure(signature, entries, array_width, from_config,
                                           decl, mapped),
                                 array_width, decl, mapped)}})

\* get_arguments: the declarations of the cached arguments.
get_arguments(cache) ==
    [k \in 1 .. Len(cache) |->
        LET arg == cache[k][2]
            vs  == IF arg.value # <<>> THEN <<" ", "=", " ">> \o arg.value ELSE <<>>
        IN  IF isptr(arg) /\ arg.value # <<>>
            THEN type_str(arg) \o <<" ">> \o arg.name \o vs \o <<";">>
            ELSE IF isptr(arg) /\ arg.type \in {W_void, W_char}
            THEN arg.type \o <<" ">> \o arg.name \o <<"[">> \o FormatInt(arg.array_size)
                     \o <<"]">> \o vs \o <<";">>
            ELSE arg.type \o <<" ">> \o arg.name \o vs \o <<";">>]

\* define_input_symex(variable)
define_input_symex(variable) ==
    IF isptr(variable) /\ variable.type \in {W_void, W_char}
    THEN <<<<"k", "l", "e", "e", "_", "m", "a", "k", "e", "_", "s", "y", "m", "b", "o", "l", "i", "c", "(">> \o variable.name \o <<",", " ">>
              \o FormatInt(variable.array_size) \o <<" ", "*", " ", "s", "i", "z", "e", "o", "f", "(">> \o variable.type
              \o <<")", ",", " ", "\"">> \o variable.name \o <<"\"", ")", ";">>>>
    ELSE <<<<"k", "l", "e", "e", "_", "m", "a", "k", "e", "_", "s", "y", "m", "b", "o", "l", "i", "c", "(", "&">> \o variable.name \o <<",", " ", "s", "i", "z", "e", "o", "f", "(">> \o variable.name
              \o <<")", ",", " ", "\"">> \o variable.name \o <<"\"", ")", ";">>>>

\* {k: v + testcase for k, v in self.testcases_fuzzing.items()}
AppendSeed(testcases, testcase) ==
    [k \in 1 .. Len(testcases) |-> <<testcases[k][1], testcases[k][2] \o testcase>>]

\* The conversion and the seed line define_input_fuzzing picks for a variable:
\* [fmtstr, testcase], or <<>> when no branch takes the type.
FuzzingFormat(variable) ==
    IF variable.type = W_int THEN [fmtstr |-> <<"%", "d">>, testcase |-> <<"1", "2", "3", "4", "\n">>]
    ELSE IF variable.type = W_size_t THEN [fmtstr |-> <<"%", "z", "u">>, testcase |-> <<"1", "2", "3", "4", "\n">>]
    ELSE IF variable.type = W_char /\ isptr(variable)
    THEN [fmtstr   |-> <<"%">> \o FormatInt(variable.array_size - 1) \o <<"s">>,
          testcase |-> Repeat("A", variable.array_size) \o <<"\n">>]
    ELSE IF variable.type = W_char /\ ~isptr(variable)
    THEN [fmtstr |-> <<"%", "c">>, testcase |-> <<"A", "\n">>]
    ELSE IF variable.type = W_long_int THEN [fmtstr |-> <<"%", "l", "d">>, testcase |-> <<"1", "2", "3", "4", "\n">>]
    ELSE IF variable.type = W_long_long_int
    THEN [fmtstr |-> <<"%", "l", "l", "d">>, testcase |-> <<"1", "2", "3", "4", "\n">>]
    ELSE IF variable.type = W_long THEN [fmtstr |-> <<"%", "l">>, testcase |-> <<"1", "2", "3", "4", "\n">>]
    ELSE IF variable.type = W_long_long THEN [fmtstr |-> <<"%", "l", "l">>, testcase |-> <<"1", "2", "3", "4", "\n">>]
    ELSE <<>>

\* define_input_fuzzing(variable) on the seeds testcases:
\* [raised, message, code, testcases].  raise Exception() carries no message.
define_input_fuzzing(testcases, variable) ==
    The({IF f # <<>>
         THEN [raised |-> "none", message |-> <<>>,
               code |-> <<<<"s", "c", "a", "n", "f", "(", "\"">> \o f.fmtstr \o <<"\"", ",", " ">> \o arg \o <<")", ";">>>>,
               testcases |-> AppendSeed(testcases, f.testcase)]
         ELSE IF variable.type = W_wint_t
         THEN [raised |-> "none", message |-> <<>>,
               code |-> <<<<"r", "e", "a", "d", "(", "0", ",", " ">> \o arg \o <<",", " ", "4", ")", ";">>>>,
               testcases |-> AppendSeed(testcases, <<"A", "A", "\n">>)]
         ELSE [raised |-> "Exception", message |-> <<>>, code |-> <<>>,
               testcases |-> testcases] :
            f \in {FuzzingFormat(variable)},
            arg \in {IF isptr(variable) THEN variable.name ELSE <<"&">> \o variable.name}})

\* define_input_space: define_input for every cached argument without a value,
\* in order; an exception ends the loop.  [raised, code, testcases]
RECURSIVE define_input_space(_, _, _)
define_input_space(engine, testcases, cache) ==
    IF cache = <<>> THEN [raised |-> "none", code |-> <<>>, testcases |-> testcases]
    ELSE IF Head(cache)[2].value # <<>>
    THEN define_input_space(engine, testcases, Tail(cache))
    ELSE IF engine = "symex"
    THEN [define_input_space(engine, testcases, Tail(cache))
             EXCEPT !.code = define_input_symex(Head(cache)[2]) \o @]
    ELSE The({IF one.raised # "none"
              THEN [raised |-> one.raised, code |-> <<>>, testcases |-> one.testcases]
              ELSE [define_input_space(engine, one.testcases, Tail(cache))
                       EXCEPT !.code = one.code \o @] :
                 one \in {define_input_fuzzing(testcases, Head(cache)[2])}})

\* generate_assumptions
generate_assumptions(assumptions) ==
    [k \in 1 .. Len(assumptions) |-> <<"i", "f", " ", "(", "!", "(">> \o assumptions[k] \o <<")", ")", " ", "r", "e", "t", "u", "r", "n", " ", "0", ";">>]

\* What build_target makes of the prepared state: the argument declarations,
\* the input lines and the assumption lines of the harness, and for the fuzzing
\* engine the seed files; generate_toolchain_fuzzing ends with
\* set_engine_fuzzing, which resets the seeds.
build_target(engine, cache, assumptions, testcases) ==
    The({[raised      |-> inputs.raised,
          arguments   |-> get_arguments(cache),
          inputs      |-> inputs.code,
          assumptions |-> generate_assumptions(assumptions),
          seeds       |-> IF engine = "fuzzing" /\ inputs.raised = "none"
                          THEN inputs.testcases ELSE <<>>,
          testcases   |-> IF engine = "fuzzing" /\ inputs.raised = "none"
                          THEN DefaultTestcases ELSE inputs.testcases] :
            inputs \in {define_input_space(engine, testcases, cache)}})

\* One finished pass of the loop of build_targets_array: its width, the state
\* prepare left (p) and what build_target wrote from it (b).
RunRecord(w, p, b) ==
    [width           |-> w,
     arguments_cache |-> p.arguments_cache,
     initial_seeds   |-> p.testcases,
     arguments       |-> b.arguments,
     inputs          |-> b.inputs,
     assumptions     |-> b.assumptions,
     seeds           |-> b.seeds]

NoInput == [variable |-> <<>>, before |-> <<>>, raised |-> "none", message |-> <<>>,
            code |-> <<>>]

\* A test, or build_targets_array, assigns self.array_width.
SetArrayWidth ==
    /\ hpc = "idle"
    /\ h_steps < MaxHarnessSteps
    /\ \E w \in TestWidths :
        /\ w # h_array_width
        /\ h_array_width' = w
    /\ h_steps' = h_steps + 1
    /\ UNCHANGED <<h_max, h_decl, h_from_config, h_engine, h_signature, h_entries,
                   h_arguments_cache, h_testcases, h_assumptions, h_prepared, h_sweep,
                   h_runs, h_input, hpc>>
    /\ UNCHANGED notHarnessVars

\* prepare()
Prepare ==
    /\ hpc = "idle"
    /\ h_steps < MaxHarnessSteps
    /\ \E p \in {prepare(h_signature, h_entries, h_array_width, h_from_config, h_decl,
                          HarnessMapped)} :
           /\ h_signature' = p.signature
           /\ h_entries' = p.entries
           /\ h_arguments_cache' = p.arguments_cache
           /\ h_testcases' = p.testcases
           /\ h_assumptions' = p.assumptions
           /\ h_prepared' = [width |-> h_array_width, raised |-> p.raised]
           /\ hpc' = IF p.raised = "none" THEN "idle" ELSE "raised"
    /\ h_steps' = h_steps + 1
    /\ UNCHANGED <<h_max, h_decl, h_from_config, h_engine, h_array_width, h_sweep,
                   h_runs, h_input>>
    /\ UNCHANGED notHarnessVars

\* define_input_fuzzing(variable), called for one variable with the fuzzing
\* engine selected.
DefineInputFuzzing ==
    /\ hpc = "idle"
    /\ h_engine = "fuzzing"
    /\ h_steps < MaxHarnessSteps
    /\ \E variable \in FuzzVariables :
        \E r \in {define_input_fuzzing(h_testcases, variable)} :
            /\ h_input' = [variable |-> variable, before |-> h_testcases,
                           raised |-> r.raised, message |-> r.message, code |-> r.code]
            /\ h_testcases' = r.testcases
            /\ hpc' = IF r.raised = "none" THEN "idle" ELSE "raised"
    /\ h_steps' = h_steps + 1
    /\ UNCHANGED <<h_max, h_decl, h_from_config, h_engine, h_array_width,
                   h_signature, h_entries, h_arguments_cache, h_assumptions, h_prepared,
                   h_sweep, h_runs>>
    /\ UNCHANGED notHarnessVars

\* build_targets_array is called: m and the range of the loop.
BuildTargetsArrayCall ==
    /\ hpc = "idle"
    /\ h_sweep' = SweepRange(h_max)
    /\ h_runs' = <<>>
    /\ hpc' = "sweep"
    /\ UNCHANGED <<h_max, h_decl, h_from_config, h_engine, h_array_width,
                   h_signature, h_entries, h_arguments_cache, h_testcases, h_assumptions,
                   h_prepared, h_input, h_steps>>
    /\ UNCHANGED notHarnessVars

\* One pass of the loop of build_targets_array: self.array_width takes the next
\* value of the range, prepare(), build_target(), cleanup_all().
SweepIteration ==
    /\ hpc = "sweep"
    /\ h_sweep # <<>>
    /\ \E w \in {Head(h_sweep)} :
       \E p \in {prepare(h_signature, h_entries, w, h_from_config, h_decl, HarnessMapped)} :
       \E b \in {build_target(h_engine, p.arguments_cache, p.assumptions, p.testcases)} :
       \E failed \in {IF p.raised # "none" THEN p.raised ELSE b.raised} :
           /\ h_array_width' = w
           /\ h_signature' = p.signature
           /\ h_entries' = p.entries
           /\ h_arguments_cache' = p.arguments_cache
           /\ h_assumptions' = p.assumptions
           /\ h_prepared' = [width |-> w, raised |-> p.raised]
           /\ h_testcases' = IF p.raised # "none" THEN p.testcases ELSE b.testcases
           /\ h_runs' = IF failed # "none" THEN h_runs
                        ELSE Append(h_runs, RunRecord(w, p, b))
           /\ hpc' = IF failed # "none" THEN "raised" ELSE "sweep"
    /\ h_sweep' = Tail(h_sweep)
    /\ UNCHANGED <<h_max, h_decl, h_from_config, h_engine, h_input, h_steps>>
    /\ UNCHANGED notHarnessVars

\* build_targets_array returns blobs.
BuildTargetsArrayReturn ==
    /\ hpc = "sweep"
    /\ h_sweep = <<>>
    /\ hpc' = "returned"
    /\ UNCHANGED <<h_max, h_decl, h_from_config, h_engine, h_array_width,
                   h_signature, h_entries, h_arguments_cache, h_testcases, h_assumptions,
                   h_prepared, h_sweep, h_runs, h_input, h_steps>>
    /\ UNCHANGED notHarnessVars

\* The state after load_general_config, __init__ and set_engine_*.
HarnessInit ==
    /\ h_max \in 0 .. MaxArrayWidth
    /\ h_decl \in HarnessDeclarations
    /\ h_from_config \in BOOLEAN
    /\ h_engine \in {"symex", "fuzzing"}
    /\ h_array_width = h_max
    /\ h_signature = NoSignature
    /\ h_entries = <<>>
    /\ h_arguments_cache = <<>>
    /\ h_testcases = DefaultTestcases
    /\ h_assumptions = <<>>
    /\ h_prepared = [width |-> -1, raised |-> "none"]
    /\ h_sweep = <<>>
    /\ h_runs = <<>>
    /\ h_input = NoInput
    /\ h_steps = 0
    /\ hpc = "idle"

HarnessIdle ==
    /\ h_max = 0
    /\ h_decl = <<>>
    /\ h_from_config = FALSE
    /\ h_engine = "symex"
    /\ h_array_width = 0
    /\ h_signature = NoSignature
    /\ h_entries = <<>>
    /\ h_arguments_cache = <<>>
    /\ h_testcases = DefaultTestcases
    /\ h_assumptions = <<>>
    /\ h_prepared = [width |-> -1, raised |-> "none"]
    /\ h_sweep = <<>>
    /\ h_runs = <<>>
    /\ h_input = NoInput
    /\ h_steps = 0
    /\ hpc = "parked"

\* The state after load_general_config, __init__ and set_engine_fuzzing.
HarnessInitFuzzing ==
    /\ HarnessInit
    /\ h_engine = "fuzzing"

HarnessNext ==
    \/ SetArrayWidth
    \/ Prepare
    \/ BuildTargetsArrayCall
    \/ SweepIteration
    \/ BuildTargetsArrayReturn

HarnessFuzzingNext ==
    \/ Prepare
    \/ DefineInputFuzzing

-----------------------------------------------------------------------------
(* Call wrappers: prebuild.py build_call_wrappers *)

W_lib_entry_ == <<"l", "i", "b", "_", "e", "n", "t", "r", "y", "_">>

\* The functions a configuration lists.
WrapperFunctionNames == {<<"f">>, <<"g">>}

\* The headers a configuration names for a function.
WrapperHeaders == {<<"a", ".", "h">>, <<"b", ".", "h">>}

\* The argument lists of the man pages.
WrapperArgTexts == {<<>>, <<"i", "n", "t", " ", "a">>, <<"c", "o", "n", "s", "t", " ", "c", "h", "a", "r", " ", "*", "s">>, <<"c", "h", "a", "r", " ", "*", "s", ",", " ", "i", "n", "t", " ", "a">>}

\* function_signature_raw(name): the declaration of the man page with its ";",
\* or ";" alone when man prints nothing for the name.
ManPageLines(name) ==
    {r \o name \o <<"(">> \o a \o <<")", ";">> : r \in ReturnTexts, a \in WrapperArgTexts}
        \cup {<<";">>}

\* One entry of config['functions'] with what the man page holds for it.
WrapperEntries ==
    {[name |-> n, line |-> l, header |-> h] :
        n \in WrapperFunctionNames, l \in UNION {ManPageLines(x) : x \in WrapperFunctionNames},
        h \in WrapperHeaders}

\* function_signature(fname): Signature.parse(line + ';')
function_signature(line) == SignatureParse(line \o <<";">>, -1)

\* Signature.fork(name), by value.
ForkByValue(sig, name) ==
    [name |-> name, args |-> sig.args, ret |-> [sig.ret EXCEPT !.name = W_ret_ \o name]]

\* Function.definition(body) for a body of one line.
DefinitionWith(f, body) == Header(f) \o <<"\n", "{", "\n", "\t">> \o body \o <<"\n", "}">>

\* f"return {funcname}({args});" with args the names of the arguments.
WrapperBody(funcname, f) ==
    <<"r", "e", "t", "u", "r", "n", " ">> \o funcname \o <<"(">>
        \o JoinComma([k \in 1 .. Len(f.args) |-> f.args[k].name]) \o <<")", ";">>

\* The loop over functions: [source, header, raised], what it printed to the two
\* files until it ended or function_signature raised.
RECURSIVE WrapperLoop(_)
WrapperLoop(functions) ==
    IF functions = <<>> THEN [source |-> <<>>, header |-> <<>>, raised |-> "none"]
    ELSE The({IF s.raised # "none"
              THEN [source |-> <<>>, header |-> <<>>, raised |-> s.raised]
              ELSE The({The({[rest EXCEPT !.source = <<DefinitionWith(f, WrapperBody(Head(functions).name, f))>> \o @,
                                          !.header = <<declaration(f)>> \o @] :
                               rest \in {WrapperLoop(Tail(functions))}}) :
                          f \in {ForkByValue(s, W_lib_entry_ \o Head(functions).name)}}) :
                 s \in {function_signature(Head(functions).line)}})

\* The orders in which a set of header names can be iterated.
IterationOrders(S) ==
    {o \in UNION {[1 .. n -> S] : n \in {Cardinality(S)}} : Range(o) = S}

\* build_call_wrappers(config)
BuildCallWrappers ==
    /\ cwpc = "start"
    /\ \E order \in IterationOrders({cw_functions[k].header : k \in 1 .. Len(cw_functions)}) :
       \E w \in {WrapperLoop(cw_functions)} :
          /\ cw_source' = [k \in 1 .. Len(order) |-> <<"#", "i", "n", "c", "l", "u", "d", "e", " ", "<">> \o order[k] \o <<">">>]
                             \o <<<<>>>> \o w.source
          /\ cw_header' = <<<<"#", "i", "f", "n", "d", "e", "f", " ", "_", "_", "C", "A", "L", "L", "_", "W", "R", "A", "P", "P", "E", "R", "S">>, <<"#", "d", "e", "f", "i", "n", "e", " ", "_", "_", "C", "A", "L", "L", "_", "W", "R", "A", "P", "P", "E", "R", "S">>, <<>>>>
                             \o w.header
                             \o (IF w.raised = "none" THEN <<<<"#", "e", "n", "d", "i", "f">>>> ELSE <<>>)
          /\ cw_raised' = w.raised
          /\ cwpc' = IF w.raised = "none" THEN "done" ELSE "raised"
    /\ UNCHANGED cw_functions
    /\ UNCHANGED notWrappersVars

\* A configuration of up to MaxWrapperFunctions functions with different names.
WrappersInit ==
    /\ cw_functions \in {es \in UNION {[1 .. n -> WrapperEntries] : n \in 0 .. MaxWrapperFunctions} :
                           /\ \A j, k \in 1 .. Len(es) : j # k => es[j].name # es[k].name
                           /\ \A k \in 1 .. Len(es) :
                                 es[k].line \in ManPageLines(es[k].name)}
    /\ cw_source = <<>>
    /\ cw_header = <<>>
    /\ cw_raised = "none"
    /\ cwpc = "start"

WrappersIdle ==
    /\ cw_functions = <<>>
    /\ cw_source = <<>>
    /\ cw_header = <<>>
    /\ cw_raised = "none"
    /\ cwpc = "parked"

WrappersNext ==
    \/ BuildCallWrappers

-----------------------------------------------------------------------------
(* Harness generation and the build of one target: crafter.py *)

\* The array widths a test assigns.
GenerationWidths == {0, 4}

\* Return types of the declarations a test works on.
GenerationReturnTexts == {<<"v", "o", "i", "d", " ">>, <<"i", "n", "t", " ">>, <<"c", "h", "a", "r", " ", "*">>}

\* Arguments of the declarations a test works on; their names differ.
GenerationArgTexts == {<<"i", "n", "t", " ", "a">>, <<"c", "h", "a", "r", " ", "*", "s">>, <<"s", "i", "z", "e", "_", "t", " ", "*", "x">>, <<"v", "o", "i", "d", " ", "*", "p">>}

\* The declarations of HarnessFunction with 1 .. MaxGenerationArgs arguments.
GenerationDeclarations ==
    {r \o HarnessFunction \o <<"(">> \o JoinComma(a) \o <<")", ";">> :
        r \in GenerationReturnTexts,
        a \in {b \in UNION {[1 .. n -> GenerationArgTexts] : n \in 1 .. MaxGenerationArgs} :
                 NoDuplicates(b)}}

\* self.entries.values() for the entry names the object holds: the signature
\* setter forks the signature under the resolved name (the fork names the return
\* variable "ret_" + that name); prepare may rename the function afterwards.
Entries(signature, names, mapped) ==
    [k \in 1 .. Len(names) |->
        [ForkByValue(signature, EntryName(k, mapped, signature.name))
            EXCEPT !.name = names[k]]]

\* get_property_space
get_property_space(signature) ==
    <<signature.ret.type \o <<" ", "e", "v", "a", "l", "_", "r", "e", "t", "u", "r", "n", "_", "v", "a", "l", "u", "e", "s", "[">> \o FormatInt(Len(HarnessLibs)) \o <<"]", ";">>>>

\* generate_entry_declaration
generate_entry_declaration(entries) ==
    [k \in 1 .. Len(entries) |-> declaration(entries[k])]

\* generate_return_values: one declaration per entry that does not return void.
RECURSIVE generate_return_values(_)
generate_return_values(entries) ==
    IF entries = <<>> THEN <<>>
    ELSE (IF Head(entries).ret.type = W_void /\ Head(entries).ret.ptr_depth = 0
          THEN <<>>
          ELSE <<str(Head(entries).ret) \o <<";">>>>)
         \o generate_return_values(Tail(entries))

\* generate_entry_calls
generate_entry_calls(entries) ==
    [k \in 1 .. Len(entries) |-> call(entries[k])]

\* prepare_verify_call
prepare_verify_call(entries) ==
    [k \in 1 .. Len(HarnessLibs) |->
        <<"e", "v", "a", "l", "_", "r", "e", "t", "u", "r", "n", "_", "v", "a", "l", "u", "e", "s", "[">> \o FormatInt(k - 1) \o <<"]", " ", "=", " ">> \o entries[k].ret.name \o <<";">>]

NoHarness ==
    [property_space |-> <<>>, entry_declaration |-> <<>>, return_values |-> <<>>,
     arguments |-> <<>>, inputs |-> <<>>, assumptions |-> <<>>, entry_calls |-> <<>>,
     verify_call |-> <<>>]

\* generate_test_harness: [raised, harness, testcases].  The harness is kept as
\* the lists of lines its generators return; the fixed lines between them are
\* left out.  Without a signature get_property_space raises AttributeError;
\* define_input_space may raise after it has extended some seeds.
generate_test_harness(engine, signature, names, mapped, cache, assumptions, testcases) ==
    IF signature.raised # "none"
    THEN [raised |-> "AttributeError", harness |-> NoHarness, testcases |-> testcases]
    ELSE The({The({[raised    |-> inputs.raised,
                    testcases |-> inputs.testcases,
                    harness   |-> IF inputs.raised # "none" THEN NoHarness
                                  ELSE [property_space    |-> get_property_space(signature),
                                        entry_declaration |-> generate_entry_declaration(entries),
                                        return_values     |-> generate_return_values(entries),
                                        arguments         |-> get_arguments(cache),
                                        inputs            |-> inputs.code,
                                        assumptions       |-> generate_assumptions(assumptions),
                                        entry_calls       |-> generate_entry_calls(entries),
                                        verify_call       |-> IF Len(HarnessLibs) > 1
                                                              THEN prepare_verify_call(entries)
                                                              ELSE <<>>]] :
                     inputs \in {define_input_space(engine, testcases, cache)}}) :
                entries \in {Entries(signature, names, mapped)}})

NoSeedFiles == [written |-> FALSE, files |-> <<>>, arguments_cache |-> <<>>]

\* A test assigns self.array_width.
AssignArrayWidth ==
    /\ gpc = "idle"
    /\ g_steps < MaxGenerationSteps
    /\ \E w \in GenerationWidths :
        /\ w # g_array_width
        /\ g_array_width' = w
    /\ g_steps' = g_steps + 1
    /\ UNCHANGED <<g_decl, g_from_config, g_mapped, g_engine, g_signature, g_entries,
                   g_arguments_cache, g_testcases, g_assumptions, g_harness, g_seed_files,
                   g_raised, gpc>>
    /\ UNCHANGED notGenerationVars

\* prepare()
PrepareTest ==
    /\ gpc = "idle"
    /\ g_steps < MaxGenerationSteps
    /\ \E p \in {prepare(g_signature, g_entries, g_array_width, g_from_config, g_decl,
                          g_mapped)} :
           /\ g_signature' = p.signature
           /\ g_entries' = p.entries
           /\ g_arguments_cache' = p.arguments_cache
           /\ g_testcases' = p.testcases
           /\ g_assumptions' = p.assumptions
           /\ g_raised' = p.raised
    /\ g_steps' = g_steps + 1
    /\ UNCHANGED <<g_decl, g_from_config, g_mapped, g_engine, g_array_width, g_harness,
                   g_seed_files, gpc>>
    /\ UNCHANGED notGenerationVars

\* generate_test_harness(), or write_test_harness(filename)
GenerateTestHarness ==
    /\ gpc = "idle"
    /\ g_steps < MaxGenerationSteps
    /\ \E t \in {generate_test_harness(g_engine, g_signature, g_entries, g_mapped,
                                        g_arguments_cache, g_assumptions, g_testcases)} :
           /\ g_harness' = IF t.raised = "none" THEN t.harness ELSE g_harness
           /\ g_testcases' = t.testcases
           /\ g_raised' = t.raised
    /\ g_steps' = g_steps + 1
    /\ UNCHANGED <<g_decl, g_from_config, g_mapped, g_engine, g_array_width, g_signature,
                   g_entries, g_arguments_cache, g_assumptions, g_seed_files, gpc>>
    /\ UNCHANGED notGenerationVars

\* build_target(target_folder) returns the blob: the harness is written and
\* compiled; the fuzzing engine writes the seeds to the testcase files and
\* set_engine_fuzzing resets them.
BuildTargetDone ==
    /\ gpc = "idle"
    /\ g_steps < MaxGenerationSteps
    /\ \E t \in {generate_test_harness(g_engine, g_signature, g_entries, g_mapped,
                                        g_arguments_cache, g_assumptions, g_testcases)} :
           /\ t.raised = "none"
           /\ g_harness' = t.harness
           /\ g_seed_files' = IF g_engine = "fuzzing"
                              THEN [written |-> TRUE, files |-> t.testcases,
                                    arguments_cache |-> g_arguments_cache]
                              ELSE g_seed_files
           /\ g_testcases' = IF g_engine = "fuzzing" THEN DefaultTestcases ELSE t.testcases
    /\ g_raised' = "none"
    /\ g_steps' = g_steps + 1
    /\ UNCHANGED <<g_decl, g_from_config, g_mapped, g_engine, g_array_width, g_signature,
                   g_entries, g_arguments_cache, g_assumptions, gpc>>
    /\ UNCHANGED notGenerationVars

\* build_target(target_folder) raises: generate_test_harness raises, or the
\* harness is written and compile_file, link or afl-gcc ends with CompileError
\* (compiler.run_command) before generate_toolchain_fuzzing is reached.
BuildTargetFails ==
    /\ gpc = "idle"
    /\ g_steps < MaxGenerationSteps
    /\ \E t \in {generate_test_harness(g_engine, g_signature, g_entries, g_mapped,
                                        g_arguments_cache, g_assumptions, g_testcases)} :
           /\ g_harness' = IF t.raised = "none" THEN t.harness ELSE g_harness
           /\ g_testcases' = t.testcases
           /\ g_raised' = IF t.raised = "none" THEN "CompileError" ELSE t.raised
    /\ g_steps' = g_steps + 1
    /\ UNCHANGED <<g_decl, g_from_config, g_mapped, g_engine, g_array_width, g_signature,
                   g_entries, g_arguments_cache, g_assumptions, g_seed_files, gpc>>
    /\ UNCHANGED notGenerationVars

\* The state after load_general_config, __init__ and set_engine_*.
GenerationInit ==
    /\ g_decl \in GenerationDeclarations
    /\ g_from_config \in BOOLEAN
    /\ g_mapped \in [1 .. Len(HarnessLibs) -> BOOLEAN]
    /\ g_engine \in {"symex", "fuzzing"}
    /\ g_array_width \in GenerationWidths
    /\ g_signature = NoSignature
    /\ g_entries = <<>>
    /\ g_arguments_cache = <<>>
    /\ g_testcases = DefaultTestcases
    /\ g_assumptions = <<>>
    /\ g_harness = NoHarness
    /\ g_seed_files = NoSeedFiles
    /\ g_raised = "none"
    /\ g_steps = 0
    /\ gpc = "idle"

GenerationIdle ==
    /\ g_decl = <<>>
    /\ g_from_config = FALSE
    /\ g_mapped = <<>>
    /\ g_engine = "symex"
    /\ g_array_width = 0
    /\ g_signature = NoSignature
    /\ g_entries = <<>>
    /\ g_arguments_cache = <<>>
    /\ g_testcases = DefaultTestcases
    /\ g_assumptions = <<>>
    /\ g_harness = NoHarness
    /\ g_seed_files = NoSeedFiles
    /\ g_raised = "none"
    /\ g_steps = 0
    /\ gpc = "parked"

GenerationNext ==
    \/ AssignArrayWidth
    \/ PrepareTest
    \/ GenerateTestHarness
    \/ BuildTargetDone
    \/ BuildTargetFails

-----------------------------------------------------------------------------
(* Specifications: one component runs, the others are parked *)

InitVerifier == VerifierInit /\ BuildIdle /\ ToolIdle /\ RenameIdle /\ PrebuildIdle /\ LanguageIdle /\ HarnessIdle
        /\ WrappersIdle
        /\ GenerationIdle

SpecVerifier == InitVerifier /\ [][VerifierNext]_vars

InitVerifierMany == VerifierInitMany /\ BuildIdle /\ ToolIdle /\ RenameIdle /\ PrebuildIdle /\ LanguageIdle /\ HarnessIdle
        /\ WrappersIdle
        /\ GenerationIdle

SpecVerifierMany == InitVerifierMany /\ [][VerifierNext]_vars

InitBuild == BuildInit /\ VerifierIdle /\ ToolIdle /\ RenameIdle /\ PrebuildIdle /\ LanguageIdle /\ HarnessIdle
        /\ WrappersIdle
        /\ GenerationIdle

SpecBuild == InitBuild /\ [][BuildNext]_vars

InitTool == ToolInit /\ VerifierIdle /\ BuildIdle /\ RenameIdle /\ PrebuildIdle /\ LanguageIdle /\ HarnessIdle
        /\ WrappersIdle
        /\ GenerationIdle

SpecTool == InitTool /\ [][ToolNext]_vars

InitRename == RenameInit /\ VerifierIdle /\ BuildIdle /\ ToolIdle /\ PrebuildIdle /\ LanguageIdle /\ HarnessIdle
        /\ WrappersIdle
        /\ GenerationIdle

SpecRename == InitRename /\ [][RenameNext]_vars

InitRenameLibraries ==
    RenameInitLibraries /\ VerifierIdle /\ BuildIdle /\ ToolIdle /\ PrebuildIdle
        /\ LanguageIdle /\ HarnessIdle
        /\ WrappersIdle
        /\ GenerationIdle

SpecRenameLibraries == InitRenameLibraries /\ [][RenameLibrariesNext]_vars

InitPrebuild == PrebuildInit /\ VerifierIdle /\ BuildIdle /\ ToolIdle /\ RenameIdle /\ LanguageIdle /\ HarnessIdle
        /\ WrappersIdle
        /\ GenerationIdle

SpecPrebuild == InitPrebuild /\ [][PrebuildNext]_vars

SpecPrebuildSources == InitPrebuild /\ [][PrebuildSourcesNext]_vars

InitLanguage ==
    LanguageInit /\ VerifierIdle /\ BuildIdle /\ ToolIdle /\ RenameIdle /\ PrebuildIdle
        /\ HarnessIdle
        /\ WrappersIdle
        /\ GenerationIdle

SpecLanguage == InitLanguage /\ [][LanguageNext]_vars

InitLanguageFork ==
    LanguageInitFork /\ VerifierIdle /\ BuildIdle /\ ToolIdle /\ RenameIdle /\ PrebuildIdle
        /\ HarnessIdle
        /\ WrappersIdle
        /\ GenerationIdle

SpecLanguageFork == InitLanguageFork /\ [][LanguageForkNext]_vars

InitHarness ==
    HarnessInit /\ VerifierIdle /\ BuildIdle /\ ToolIdle /\ RenameIdle /\ PrebuildIdle
        /\ LanguageIdle
        /\ WrappersIdle
        /\ GenerationIdle

SpecHarness == InitHarness /\ [][HarnessNext]_vars

InitHarnessFuzzing ==
    HarnessInitFuzzing /\ VerifierIdle /\ BuildIdle /\ ToolIdle /\ RenameIdle
        /\ PrebuildIdle /\ LanguageIdle
        /\ WrappersIdle
        /\ GenerationIdle

SpecHarnessFuzzing == InitHarnessFuzzing /\ [][HarnessFuzzingNext]_vars

InitWrappers ==
    WrappersInit /\ BuildIdle /\ HarnessIdle /\ LanguageIdle /\ PrebuildIdle /\ RenameIdle /\ ToolIdle /\ VerifierIdle
        /\ GenerationIdle

SpecWrappers == InitWrappers /\ [][WrappersNext]_vars

InitGeneration ==
    GenerationInit /\ BuildIdle /\ HarnessIdle /\ LanguageIdle /\ PrebuildIdle /\ RenameIdle /\ ToolIdle /\ VerifierIdle /\ WrappersIdle

SpecGeneration == InitGeneration /\ [][GenerationNext]_vars

-----------------------------------------------------------------------------
(* Properties of the verifier *)

\* lib_eval is an equivalence relation on the library indices.
IsEquivalence ==
    /\ \A i \in LibIdx : lib_eval(i, i) = 0
    /\ \A i \in LibIdx : \A j \in LibIdx : lib_eval(i, j) = 0 => lib_eval(j, i) = 0
    /\ \A i \in LibIdx : \A j \in LibIdx : \A k \in LibIdx :
           lib_eval(i, j) = 0 /\ lib_eval(j, k) = 0 => lib_eval(i, k) = 0

\* The equivalence classes of the library indices under lib_eval.
Classes == {{j \in LibIdx : lib_eval(i, j) = 0} : i \in LibIdx}

AllReturnValuesEqual ==
    /\ ~overridden
    /\ \A i \in LibIdx : \A j \in LibIdx : eval_return_values[i] = eval_return_values[j]

\* C1: with lib_eval an equivalence relation, the clustering verifier counts exactly
\* the equivalence classes, calls sputnik_abort iff there is more than one class,
\* and with all eval_return_values equal it counts one cluster and never aborts.
C1_ClusteringAbortsIffSeveralClasses ==
    (verifier = "new" /\ vpc \in {"clustered", "done"} /\ IsEquivalence) =>
        /\ count_cluster = Cardinality(Classes)
        /\ vpc = "done" => (aborted <=> Cardinality(Classes) > 1)
        /\ AllReturnValuesEqual => (count_cluster = 1 /\ ~aborted)
        /\ vpc = "clustered" => ~aborted

C1_Witness ==
    /\ verifier = "new"
    /\ vpc = "done"
    /\ overridden
    /\ IsEquivalence
    /\ Cardinality(Classes) = 2
    /\ aborted

\* The lowest-indexed library that lib_eval considers equal to library i.
LowestEqual(i) == CHOOSE k \in LibIdx :
    /\ lib_eval(i, k) = 0
    /\ \A l \in LibIdx : lib_eval(i, l) = 0 => k <= l

RECURSIVE Decimal(_)
\* The decimal rendering of a positive integer, most significant digit first.
Decimal(n) ==
    IF n < 10 THEN <<Digits[n + 1]>>
    ELSE Decimal(n \div 10) \o <<Digits[(n % 10) + 1]>>

\* "<libs_identifier[i]>:<cluster>\n" for every library in index order.
DecimalReport ==
    Concat([k \in 1 .. nlibs |->
        libs_identifier(k - 1) \o <<":">> \o Decimal(LowestEqual(k - 1) + 1) \o <<"\n">>])

\* C2: when the clustering verifier aborts, mapping[i] was k+1 for the lowest-indexed
\* library k equal to i, and the message holds for every library, in index order,
\* the line "<name>:<decimal rendering of mapping[i]>\n", also for N >= 10.
C2_ReportIsDecimalClusterIndex ==
    (verifier = "new" /\ IsEquivalence) =>
        /\ vpc = "clustered" => \A i \in LibIdx : mapping[i] = LowestEqual(i) + 1
        /\ (vpc = "done" /\ aborted) => message = DecimalReport

\* C3: the traditional verifier calls sputnik_abort iff some pair (i, j) of library
\* indices has lib_eval(i, j) != 0.
C3_TraditionalAbortsIffSomePairDiffers ==
    (verifier = "traditional" /\ vpc = "done") =>
        (aborted <=> \E i \in LibIdx : \E j \in LibIdx : lib_eval(i, j) # 0)

C3_Witness ==
    /\ verifier = "traditional"
    /\ vpc = "done"
    /\ aborted
    /\ overridden
    /\ \A i \in LibIdx : \A j \in LibIdx : lib_eval(i, j) # 0 <=> (i = 2 /\ j = 1)

-----------------------------------------------------------------------------
(* Properties of the build of a target *)

\* C4: when a build_targets invocation that was not asked to keep its folder has
\* finished, by returning or by raising, every temp directory it created (the
\* top-level one and those of build_semantic_wrappers) has been removed.
C4_TempDirsRemovedOnEveryExit ==
    (bpc \in {"done", "failed"} /\ ~keep_folder) =>
        \A d \in created : fs[d] # "dir"

\* A step of generate_tmp_dir does not raise, and when it leaves the loop it has
\* created a directory whose name did not exist.
TmpDirStepIsFresh ==
    bpc \in {"tmp", "w_tmp"} =>
        /\ bpc' # "failed"
        /\ bpc' # bpc =>
              \E name \in TmpNames :
                 /\ fs[name] = "absent"
                 /\ fs' = [fs EXCEPT ![name] = "dir"]
                 /\ IF bpc = "tmp" THEN self_tmp' = name ELSE local_tmp' = name

\* C22: temp-directory allocation never fails and never returns an existing
\* path: whenever the candidate name exists under the parent, as a regular file
\* or as a directory, generate_tmp_dir tries another name, and when it returns
\* it has created a directory that did not exist.
C22_TmpDirAllocationRetriesOnCollision == [][TmpDirStepIsFresh]_vars

-----------------------------------------------------------------------------
(* Properties of the toolchain driver *)

\* The child of the k-th pair let the compile succeed.
Succeeded(k) == tchildren[k] \in ChildResults /\ tchildren[k].returncode = 0

\* The child of the k-th pair exited with status zero and wrote to stderr.
Warned(k) == Succeeded(k) /\ tchildren[k].stderr # <<>>

RECURSIVE SucceededDests(_)
\* The destinations of the first n pairs whose compile succeeded, in map order.
SucceededDests(n) ==
    IF n = 0 THEN <<>>
    ELSE IF Succeeded(n) THEN Append(SucceededDests(n - 1), tsrcs[n][2])
    ELSE SucceededDests(n - 1)

\* C5: compile_collection attempts every pair in map order whatever the earlier
\* pairs did, never raises, and returns exactly the destinations whose compile
\* succeeded, in order; compiled + failed is the number of pairs, warning <=
\* compiled, and a file with a warning is counted as compiled and returned.
C5_CompileCollectionIsPerFileLocal ==
    (tpc \in {"loop", "returned"}) =>
        /\ Len(tchildren) = tidx
        /\ tfiles = SucceededDests(tidx)
        /\ tstats.compiled + tstats.failed = tidx
        /\ tstats.compiled = Len(tfiles)
        /\ tstats.warning = Cardinality({k \in 1 .. tidx : Warned(k)})
        /\ tstats.warning <= tstats.compiled
        /\ tstats.skipped = 0
        /\ tpc = "returned" => tidx = Len(tsrcs)

C5_Witness ==
    /\ tpc = "returned"
    /\ Len(tsrcs) = 3
    /\ ~Succeeded(1)
    /\ Warned(2)
    /\ Succeeded(3)
    /\ tfiles = <<tsrcs[2][2], tsrcs[3][2]>>

\* The error kind the claim gives each toolchain operation.
ClaimedErrorKind(op) == IF op = "link" THEN "LinkerError" ELSE "CompileError"

\* C6: a toolchain operation whose child exits non-zero raises an error carrying
\* the captured stderr, CompileError for compile_file and LinkerError for link;
\* with a zero exit status it returns a warning string iff the child wrote to
\* stderr.
C6_ErrorKindDistinguishesOperation ==
    (tpc = "called" /\ top \in {"compile_file", "link"}) =>
        IF tchild.returncode # 0
        THEN tresult.raised = ClaimedErrorKind(top) /\ tresult.carried = tchild.stderr
        ELSE /\ tresult.raised = "none"
             /\ ~tresult.none <=> tchild.stderr # <<>>
             /\ ~tresult.none => tresult.value = tchild.stderr

-----------------------------------------------------------------------------
(* Properties of the library builder *)

\* The run of Builder.run in progress is past pre_compile, which returned.
PreCompileReturned ==
    \/ ppc \in {"inject", "link", "disassemble", "assemble", "write_mapping",
                 "integrity", "done"}
    \/ ppc = "failed" /\ p_failed_at # "pre_compile"

\* The run in progress has called compiler.link.
LinkCalled ==
    \/ ppc \in {"disassemble", "assemble", "write_mapping", "integrity", "done"}
    \/ ppc = "failed" /\ p_failed_at \in {"link", "disassemble", "assemble"}

RECURSIVE NewlyCompiled(_)
\* The destinations of the first n work-set pairs whose compiler exited with 0.
NewlyCompiled(n) ==
    IF n = 0 THEN <<>>
    ELSE NewlyCompiled(n - 1)
         \o (IF p_children[n].returncode = 0 THEN <<p_new_files[n][2]>> ELSE <<>>)

\* The sources in the work set.
WorkSources == {p_new_files[k][1] : k \in 1 .. Len(p_new_files)}

\* C7: in a non-rebuild pre_compile that could read included_files.json, the work
\* set is exactly the sources of lib.sources() whose destination is not in the
\* loaded list, each once and with its destination, so that no listed destination
\* is recompiled; the list persisted and returned is the loaded list followed by
\* the destinations compiled successfully, without duplicates; and the list handed
\* to the linker is that list followed by wrapper.ll when wrappers are configured.
C7_IncrementalWorkSetAndFileLists ==
    (~p_rebuild /\ p_loaded = "list" /\ PreCompileReturned) =>
        /\ WorkSources = {src \in Range(p_sources) : Dest(src) \notin Range(p_old_files)}
        /\ NoDuplicates(p_new_files)
        /\ \A k \in 1 .. Len(p_new_files) :
              /\ p_new_files[k][2] = Dest(p_new_files[k][1])
              /\ p_new_files[k][2] \notin Range(p_old_files)
        /\ p_included = [state |-> "list",
                         files |-> p_old_files \o NewlyCompiled(Len(p_new_files))]
        /\ NoDuplicates(p_included.files)
        /\ ppc = "inject" => p_files = p_included.files
        /\ LinkCalled =>
              p_linked = p_included.files \o (IF p_wrappers THEN <<WrapperLL>> ELSE <<>>)

\* An incremental build that skipped a listed file, compiled a new one and linked
\* both with the wrapper.
C7_Witness ==
    /\ ppc = "done"
    /\ ~p_rebuild
    /\ p_loaded = "list"
    /\ p_wrappers
    /\ p_old_files # <<>>
    /\ NewlyCompiled(Len(p_new_files)) # <<>>
    /\ Len(p_linked) = 3

LogCount(entry) == Cardinality({k \in 1 .. Len(p_log) : p_log[k] = entry})

\* The configured functions whose key '@' + fn rename_mapping.json lacks.
MissingFromRenameMap ==
    {f \in Range(p_functions) : (<<"@">> \o f) \notin DictKeys(p_mapfile.mapping)}

\* C9: the integrity check is not fatal: it runs with the renamed target and
\* rename_mapping.json already written, never ends the run with an exception, and
\* a finished run has logged one warning for each configured function missing
\* from the rename map, none for any other, and one error if some function is
\* missing, none otherwise.
C9_IntegrityCheckIsNonFatal ==
    /\ p_failed_at # "integrity"
    /\ ppc \in {"integrity", "done"} =>
          /\ p_target.state = "renamed"
          /\ p_mapfile = [exists |-> TRUE, mapping |-> p_mapping]
    /\ ppc = "done" =>
          /\ \A f \in ConfigFunctions :
                LogCount(<<"warning", "missing function", f>>)
                    = IF f \in MissingFromRenameMap THEN 1 ELSE 0
          /\ LogCount(<<"error", "integrity check failed", <<>>>>)
                = IF MissingFromRenameMap = {} THEN 0 ELSE 1
          /\ LogCount(<<"info", "integrity check passed", <<>>>>)
                = IF MissingFromRenameMap = {} THEN 1 ELSE 0

\* A build that finished although two configured functions are missing.
C9_Witness ==
    /\ ppc = "done"
    /\ Cardinality(MissingFromRenameMap) = 2
    /\ p_target.state = "renamed"
    /\ p_mapfile.exists

-----------------------------------------------------------------------------
(* Properties of the C declarations *)

\* Same name, same return type and pointer depth, same argument sequence.
SameSignature(a, b) ==
    /\ a.name = b.name
    /\ a.ret.type = b.ret.type
    /\ a.ret.ptr_depth = b.ret.ptr_depth
    /\ a.ret.name = b.ret.name
    /\ a.args = b.args

\* C14: the declaration rendered from the fork of a parsed signature under its
\* own name parses, with the same default array size, to a signature with the
\* name, return type, pointer depth and argument sequence of the first parse.
C14_ParseRenderRoundTrip ==
    (lg_emitted # <<>> /\ lg_forks[lg_emitted[1].fork].name = lg_sig.name) =>
        /\ lg_reparsed[1].raised = "none"
        /\ SameSignature(lg_reparsed[1], lg_parsed[1])

\* The value an attribute of an object of fork i has if nothing was assigned to
\* it since the fork was made.
Untouched(i, id, attr) ==
    LET was == IF id = lg_forks[i].ret THEN lg_forked[i].ret
               ELSE lg_forked[i].args[CHOOSE k \in 1 .. Len(lg_forks[i].args) :
                                         lg_forks[i].args[k] = id]
    IN  was[attr]

\* C15: a fork has the name it was made under, a return variable named "ret_" +
\* name that otherwise is the source's, and arguments equal to the source's; the
\* source signature still is what parse returned; and an attribute of a Variable
\* of a fork changes only by an assignment to that Variable of that fork.
C15_ForkIsAliasingFree ==
    lgpc = "parsed" =>
        /\ DerefIn(lg_heap, lg_sig) = lg_parsed[1]
        /\ lg_parsed[1].ret.name = W_unnamed
        /\ \A i \in 1 .. Len(lg_forks) :
              /\ lg_forked[i].name = lg_forks[i].name
              /\ lg_forked[i].ret =
                   [lg_parsed[1].ret EXCEPT !.name = W_ret_ \o lg_forks[i].name]
              /\ lg_forked[i].args = lg_parsed[1].args
              /\ \A id \in ObjectsOf(lg_forks[i]) :
                   \A attr \in {"type", "name", "ptr_depth", "array_size", "value"} :
                       lg_heap[id][attr] =
                         IF <<i, id, attr>> \in lg_touched THEN Assigned[attr]
                         ELSE Untouched(i, id, attr)

\* Two forks of a signature with arguments, an argument of the first and the
\* return variable of the second assigned to.
C15_Witness ==
    /\ lgpc = "parsed"
    /\ Len(lg_forks) = 2
    /\ Len(lg_sig.args) = 2
    /\ <<1, lg_forks[1].args[1], "array_size">> \in lg_touched
    /\ <<2, lg_forks[2].ret, "name">> \in lg_touched

\* Structural equality of two signatures.
StructurallyEqual(a, b) ==
    /\ a.name = b.name
    /\ VariableEq(a.ret, b.ret)
    /\ Len(a.args) = Len(b.args)
    /\ \A k \in 1 .. Len(a.args) : VariableEq(a.args[k], b.args[k])

\* C16: two signatures compare equal exactly if their names are equal, their
\* return variables are equal and their argument lists have the same length and
\* are pairwise equal; in particular not if one list is a proper prefix of the
\* other.
C16_EqualityIsStructural ==
    lg_equal # <<>> =>
        LET a == lg_parsed[1]
            b == SignatureParse(lg_other, lg_default)
        IN  /\ lg_equal[1] = StructurallyEqual(a, b)
            /\ lg_equal[2] = StructurallyEqual(a, b)

\* The declarations of a function without arguments.
ZeroArgDeclarations == {<<"v", "o", "i", "d", " ", "f", "n", "(", "v", "o", "i", "d", ")", ";">>, <<"v", "o", "i", "d", " ", "f", "n", "(", ")", ";">>}

\* C17: "void fn(void);" and "void fn();" parse to a signature without
\* arguments, and the fork under the name fn renders the declaration
\* "void fn();", the definition "void fn()" with an empty body and the call
\* "fn();".
C17_ZeroArgumentFunction ==
    lg_line \in ZeroArgDeclarations =>
        /\ lgpc # "raised"
        /\ lgpc = "parsed" => lg_parsed[1].args = <<>>
        /\ (lg_emitted # <<>> /\ lg_forks[lg_emitted[1].fork].name = <<"f", "n">>) =>
              /\ lg_emitted[1].declaration = <<"v", "o", "i", "d", " ", "f", "n", "(", ")", ";">>
              /\ lg_emitted[1].definition = <<"v", "o", "i", "d", " ", "f", "n", "(", ")", "\n", "{", "\n", "\t", "\n", "}">>
              /\ lg_emitted[1].call = <<"f", "n", "(", ")", ";">>

-----------------------------------------------------------------------------
(* Properties of the symbol renamer *)

\* The names of the symbols the module defines under the rule of the renamer:
\* globals whose linkage is not internal, private, appending or external, and
\* functions whose define is not qualified internal or private.
DefinedNames ==
    {ir_src[k].name : k \in {j \in 1 .. Len(ir_src) :
        \/ /\ ir_src[j].kind = "global"
           /\ ir_src[j].qual \notin {W_internal, W_private, W_appending, W_external}
        \/ /\ ir_src[j].kind = "define"
           /\ ir_src[j].qual \notin {W_internal, W_private}}}

\* C10: detect_names returns a mapping whose keys are exactly "@" + name for the
\* defined symbols (declarations, external globals and internal or private
\* definitions contribute no key), each with the value "@" + sub(name).
C10_DetectNamesKeysAreDefinedSymbols ==
    (rpc \in {"detected", "substituted", "done"} /\ ir_text = Text(ir_src)) =>
        /\ DictKeys(ir_mapping) = {<<"@">> \o n : n \in DefinedNames}
        /\ \A n \in DefinedNames :
               DictGet(ir_mapping, <<"@">> \o n) = <<"@">> \o sub(n, ir_prefix)

\* The run of underscores at the front of name.
UnderscoreRun(name) ==
    CHOOSE u \in 0 .. Len(name) :
        /\ \A k \in 1 .. u : name[k] = "_"
        /\ u < Len(name) => name[u + 1] # "_"

\* <leading underscore run><prefix>_<remainder>
Prefixed(name, prefix) ==
    SubSeq(name, 1, UnderscoreRun(name)) \o prefix \o <<"_">>
        \o SubSeq(name, UnderscoreRun(name) + 1, Len(name))

\* The rename in progress works on the file an earlier rename with the same
\* prefix wrote.
RenamingAgain ==
    /\ Len(ir_done) = 1
    /\ ir_done[1].prefix = ir_prefix
    /\ ir_text = ir_done[1].out

\* C11: rename maps every detected name to its leading underscore run, the
\* prefix, an underscore and the remainder; and renaming the file it wrote once
\* more with the same prefix returns and maps every symbol the first rename
\* produced to the twice-prefixed name, rewriting its definition accordingly.
C11_RenameTwicePrefixesTwice ==
    /\ rpc \in {"detected", "substituted", "done"} =>
          \A k \in 1 .. Len(ir_mapping) :
              ir_mapping[k][2] = <<"@">> \o Prefixed(Tail(ir_mapping[k][1]), ir_prefix)
    /\ RenamingAgain =>
          /\ rpc # "raised"
          /\ rpc \in {"substituted", "done"} =>
                \A k \in 1 .. Len(ir_done[1].mapping) :
                    LET name  == Tail(ir_done[1].mapping[k][1])
                        once  == <<"@">> \o Prefixed(name, ir_prefix)
                        twice == <<"@">> \o Prefixed(Prefixed(name, ir_prefix), ir_prefix)
                    IN  /\ once \in DictKeys(ir_mapping)
                        /\ DictGet(ir_mapping, once) = twice
                        /\ \A j \in 1 .. Len(ir_src) :
                              ir_src[j].name = name =>
                                ir_out[j] = Render([ir_src[j] EXCEPT !.name = Tail(twice)])

\* C12: substitute rewrites the occurrences of the keys of the mapping, each to
\* its value, and nothing else: a line whose symbol is no key (an external
\* declaration, an internal definition) is written as it was read.
C12_OnlyMappedSymbolsAreRewritten ==
    (rpc \in {"substituted", "done"} /\ ir_text = Text(ir_src)) =>
        \A j \in 1 .. Len(ir_src) :
            LET symbol == <<"@">> \o ir_src[j].name
            IN  IF symbol \in DictKeys(ir_mapping)
                THEN ir_out[j] =
                       Render([ir_src[j] EXCEPT !.name = Tail(DictGet(ir_mapping, symbol))])
                ELSE ir_out[j] = ir_text[j]

\* The renamed symbols a mapping holds.
DictValues(d) == {d[k][2] : k \in 1 .. Len(d)}

\* No two keys of a mapping have the same value.
InjectiveDict(d) ==
    \A a \in 1 .. Len(d) : \A b \in 1 .. Len(d) : d[a][2] = d[b][2] => a = b

\* C13: the blobs of two libraries with distinct names renamed, no renamed symbol
\* of one is a renamed symbol of the other, and neither mapping gives two symbols
\* the same new name.
C13_RenamedLibrariesDoNotCollide ==
    (Len(ir_done) = 1 /\ ir_done[1].prefix # ir_prefix
       /\ rpc \in {"detected", "substituted", "done"}) =>
        /\ DictValues(ir_done[1].mapping) \cap DictValues(ir_mapping) = {}
        /\ InjectiveDict(ir_done[1].mapping)
        /\ InjectiveDict(ir_mapping)


-----------------------------------------------------------------------------
(* Properties of test preparation, array sweep and input emission *)

\* The arguments of the prepared signature that are a char*.
CharPointerArgs == {k \in 1 .. Len(h_signature.args) :
                      h_signature.args[k].type = W_char /\ h_signature.args[k].ptr_depth = 1}

\* arg[array_width - 1] == '\0' for a positive array_width, arg[0] == '\0' for 0.
DefaultAssumption(arg, array_width) ==
    arg.name \o <<"[">> \o FormatInt(IF array_width > 0 THEN array_width - 1 ELSE 0)
        \o <<"]", " ", "=", "=", " ", "'", "\\", "0", "'">>

\* A prepare() has returned and nothing has cleared its state since.
Prepared == hpc \in {"idle", "sweep", "returned"} /\ h_prepared.width >= 0

\* C18: after prepare() the assumptions hold exactly one entry for each char*
\* argument and none for any other argument; the entry is
\* arg[array_width - 1] == '\0' for the array_width in force for this prepare
\* when that is positive, and arg[0] == '\0' when it is 0.
C18_DefaultAssumptions ==
    Prepared =>
        /\ Len(h_assumptions) = Cardinality(CharPointerArgs)
        /\ \A k \in CharPointerArgs :
              Cardinality({j \in 1 .. Len(h_assumptions) :
                             h_assumptions[j]
                                 = DefaultAssumption(h_signature.args[k], h_prepared.width)})
                  = 1

\* range(2, max + 1, step) with step = max(floor(max * 0.2), 1), as a set.
SweepWidths(max) ==
    {w \in 2 .. max : (w - 2) % Max({max \div 5, 1}) = 0}

\* What build_target is built from when a new TestHarness of the same test is
\* prepared for array width w.
FreshRun(w) ==
    The({RunRecord(w, p, build_target(h_engine, p.arguments_cache, p.assumptions,
                                      p.testcases)) :
            p \in {prepare(NoSignature, <<>>, w, h_from_config, h_decl, HarnessMapped)}})

\* C19: build_targets_array runs prepare and build_target exactly once per width
\* of range(2, max + 1, step), in increasing order, and every run is built from
\* a state freshly prepared for its width: cache, assumptions and seeds hold
\* nothing left over and the void* and char* arguments have array size w, with
\* the signature of the test's configuration and with the one of the man page.
C19_ArraySweepRunsFreshPerWidth ==
    hpc \in {"sweep", "returned"} =>
        /\ \A k \in 1 .. Len(h_runs) :
              /\ h_runs[k].width \in SweepWidths(h_max)
              /\ k > 1 => h_runs[k - 1].width < h_runs[k].width
              /\ h_runs[k] = FreshRun(h_runs[k].width)
              /\ \A j \in 1 .. Len(h_runs[k].arguments_cache) :
                    LET arg == h_runs[k].arguments_cache[j][2]
                    IN  isptr(arg) /\ arg.type \in {W_void, W_char}
                            => arg.array_size = h_runs[k].width
        /\ {h_runs[k].width : k \in 1 .. Len(h_runs)} \cup Range(h_sweep) = SweepWidths(h_max)
        /\ Len(h_runs) + Len(h_sweep) = Cardinality(SweepWidths(h_max))

\* The types the fuzzing input generator is to take.
SupportedFuzzTypes ==
    {W_int, W_size_t, W_long, W_long_int, W_long_long, W_long_long_int, W_char, W_wint_t}

\* text holds word somewhere.
Contains(text, word) ==
    \E at \in 1 .. Len(text) : StartsWith(text, at, word)

\* C20: define_input_fuzzing succeeds for exactly the types int, size_t, long,
\* long int, long long, long long int, char, char* and wint_t; for any other
\* type it fails with an error whose message names the type, and no seed of
\* testcases has been modified for that variable.
C20_UnsupportedTypeFailsNamingTheType ==
    (hpc \in {"idle", "raised"} /\ h_input.variable # <<>>) =>
        /\ h_input.raised = "none" <=> h_input.variable.type \in SupportedFuzzTypes
        /\ h_input.raised # "none" =>
              /\ Contains(h_input.message, h_input.variable.type)
              /\ h_testcases = h_input.before

-----------------------------------------------------------------------------
(* Properties of the call wrappers *)

\* The body the wrapper of a function is to have: the bare call for a function
\* returning void, the returned call otherwise.
ClaimedWrapperBody(funcname, f) ==
    IF f.ret.type = W_void /\ f.ret.ptr_depth = 0
    THEN funcname \o <<"(">> \o JoinComma([k \in 1 .. Len(f.args) |-> f.args[k].name])
             \o <<")", ";">>
    ELSE WrapperBody(funcname, f)

\* The definitions printed to the source and the declarations printed to the
\* header: what follows the includes and the guard.
WrapperDefinitions ==
    {cw_source[k] : k \in {j \in 1 .. Len(cw_source) :
                            cw_source[j] # <<>> /\ ~StartsWith(cw_source[j], 1, <<"#">>)}}

WrapperDeclarations ==
    {cw_header[k] : k \in {j \in 1 .. Len(cw_header) :
                            cw_header[j] # <<>> /\ ~StartsWith(cw_header[j], 1, <<"#">>)}}

\* C21: the wrapper lib_entry_<fn> has the signature of fn; its body is
\* "return fn(arg1, ...);" when fn returns a value or a pointer and the bare
\* call "fn(...);" when fn returns void; the header declares every wrapper the
\* source defines.
C21_CallWrapperBody ==
    cwpc = "done" =>
        /\ \A k \in 1 .. Len(cw_functions) :
              LET f == ForkByValue(function_signature(cw_functions[k].line),
                                   W_lib_entry_ \o cw_functions[k].name)
              IN  /\ DefinitionWith(f, ClaimedWrapperBody(cw_functions[k].name, f))
                         \in WrapperDefinitions
                  /\ declaration(f) \in WrapperDeclarations
        /\ Cardinality(WrapperDefinitions) = Len(cw_functions)
        /\ Cardinality(WrapperDeclarations) = Len(cw_functions)

-----------------------------------------------------------------------------
(* Properties of harness generation *)

\* A harness has been generated from the signature the object holds.
HarnessGenerated == g_signature.raised = "none" /\ g_harness # NoHarness

\* The argument text the call site is said to carry: &name for a pointer that
\* is stored as a scalar, the name for everything else.
ClaimedCallArgument(arg) ==
    IF isptr(arg) /\ arg.type \notin {W_void, W_char}
    THEN <<"&">> \o arg.name ELSE arg.name

\* The storage the argument is said to get: an array for void* and char*, a
\* scalar for everything else.
ClaimedStorage(arg, line) ==
    IF isptr(arg) /\ arg.type \in {W_void, W_char}
    THEN \E n \in GenerationWidths :
            line = arg.type \o <<" ">> \o arg.name \o <<"[">> \o FormatInt(n) \o <<"]", ";">>
    ELSE line = arg.type \o <<" ">> \o arg.name \o <<";">>

\* C23: storage and call site agree for pointer arguments: a void* or char*
\* argument is declared as an array and passed by its name; any other pointer
\* argument is declared as a scalar and every library's call passes its
\* address, so no call passes a scalar by value where a pointer is expected.
C23_PointerStorageAndCallSiteAgree ==
    HarnessGenerated =>
        /\ Len(g_harness.arguments) = Len(g_signature.args)
        /\ \A k \in 1 .. Len(g_signature.args) :
              ClaimedStorage(g_signature.args[k], g_harness.arguments[k])
        /\ \A i \in 1 .. Len(g_harness.entry_calls) :
              Contains(g_harness.entry_calls[i],
                       <<"(">> \o JoinComma([k \in 1 .. Len(g_signature.args) |->
                                               ClaimedCallArgument(g_signature.args[k])])
                           \o <<")", ";">>)

\* The type and pointer depth a declaration line gives its variable.
DeclaredType(line) ==
    The({[type |-> v.var.type, ptr_depth |-> v.var.ptr_depth] :
            v \in {VariableParse(line, -1)}})

\* C24: the property space declares eval_return_values[N] with the function's
\* full return type, pointer depth included, so the element type equals the
\* declared type of each library's return variable.
C24_PropertySpaceHasFullReturnType ==
    HarnessGenerated =>
        /\ Len(g_harness.property_space) = 1
        /\ VariableParse(g_harness.property_space[1], -1).var.name
              = <<"e", "v", "a", "l", "_", "r", "e", "t", "u", "r", "n", "_", "v", "a", "l", "u", "e", "s", "[">> \o FormatInt(Len(HarnessLibs)) \o <<"]">>
        /\ DeclaredType(g_harness.property_space[1])
              = [type |-> g_signature.ret.type, ptr_depth |-> g_signature.ret.ptr_depth]
        /\ \A k \in 1 .. Len(g_harness.return_values) :
              DeclaredType(g_harness.return_values[k])
                  = DeclaredType(g_harness.property_space[1])

\* The return variable prepare_verify_call copies for library i (from 1).
CopiedVariable(i) ==
    The({SubSeq(line, Len(prefix) + 1, Len(line) - 1) :
            line \in {g_harness.verify_call[i]},
            prefix \in {<<"e", "v", "a", "l", "_", "r", "e", "t", "u", "r", "n", "_", "v", "a", "l", "u", "e", "s", "[">> \o FormatInt(i - 1) \o <<"]", " ", "=", " ">>}})

\* The names the return storage declares.
DeclaredReturnVariables ==
    {VariableParse(g_harness.return_values[k], -1).var.name :
        k \in 1 .. Len(g_harness.return_values)}

\* Entry call j assigns its result to the variable.
Assigns(j, variable) == StartsWith(g_harness.entry_calls[j], 1, variable \o <<" ", "=", " ">>)

\* C25: with more than one library, the variable copied into
\* eval_return_values[i] is declared in the return storage, is assigned by the
\* entry call of library i and by no other library's call, and the return
\* variables of distinct libraries have distinct names; for every signature,
\* void included, and also when several libraries fall back to the unrenamed
\* function name.
C25_VerifiedValuesComeFromOwnLibrary ==
    (HarnessGenerated /\ Len(HarnessLibs) > 1) =>
        /\ Len(g_harness.verify_call) = Len(HarnessLibs)
        /\ \A i \in 1 .. Len(HarnessLibs) :
              /\ CopiedVariable(i) \in DeclaredReturnVariables
              /\ Assigns(i, CopiedVariable(i))
              /\ \A j \in 1 .. Len(HarnessLibs) :
                    j # i => /\ ~Assigns(j, CopiedVariable(i))
                             /\ CopiedVariable(j) # CopiedVariable(i)

\* The char* arguments prepare cached and get_arguments realizes as arrays.
CharArrayArguments ==
    {k \in 1 .. Len(g_arguments_cache) :
        /\ isptr(g_arguments_cache[k][2])
        /\ g_arguments_cache[k][2].type = W_char
        /\ g_arguments_cache[k][2].value = <<>>}

\* name[index] == '\0'
ReadsIndex(name, index) == name \o <<"[">> \o FormatInt(index) \o <<"]", " ", "=", "=", " ", "'", "\\", "0", "'">>

\* C26: for every char* argument realized as  char name[array_size]  the index
\* its default assumption reads lies inside the array, 0 <= index < array_size,
\* for every configured array_width, 0 included.
C26_DefaultAssumptionIndexInsideArray ==
    (g_signature.raised = "none" /\ g_raised = "none") =>
        \A k \in CharArrayArguments :
            The({/\ get_arguments(g_arguments_cache)[k]
                       = <<"c", "h", "a", "r", " ">> \o arg.name \o <<"[">> \o FormatInt(arg.array_size) \o <<"]", ";">>
                 /\ \E index \in 0 .. arg.array_size - 1 :
                       ReadsIndex(arg.name, index) \in Range(g_assumptions) :
                    arg \in {g_arguments_cache[k][2]}})

-----------------------------------------------------------------------------
(* Properties of the library builder across builds *)

\* The step in which pre_compile runs.
PreCompileStep == ppc = "pre_compile" /\ ppc' # "pre_compile"

\* The step is a pre_compile that read the list of an earlier build and wiped
\* nothing.
IncrementalStep ==
    PreCompileStep /\ ~p_rebuild /\ p_included.state = "list"

\* In the step, a source is compiled again exactly if no build since the last
\* rebuild compiled it successfully (builddir holds no IR file for it); a source
\* whose compiler fails is left out of the list pre_compile writes, and a source
\* whose compiler succeeds is in it.
FailedSourcesAreRetried ==
    /\ IncrementalStep =>
          {p_new_files'[k][1] : k \in 1 .. Len(p_new_files')}
              = {src \in Range(p_sources) : Dest(src) \notin p_builddir}
    /\ (PreCompileStep /\ ppc' = "inject") =>
          /\ p_included'.state = "list"
          /\ \A k \in 1 .. Len(p_new_files') :
                (p_new_files'[k][2] \in Range(p_included'.files))
                    <=> (p_children'[k].returncode = 0)

\* C27: a source whose compilation failed during a build is not recorded in
\* included_files.json; in every following build without rebuild it is in the
\* work set and compiled again until it compiles, and from then on no build
\* without rebuild compiles it again.
C27_FailedSourcesAreRetriedUntilCompiled == [][FailedSourcesAreRetried]_vars

\* A build without rebuild has compiled a source that an earlier build left out
\* of the list it loaded, and has skipped a listed one.
C27_Witness ==
    /\ ppc = "inject"
    /\ ~p_rebuild
    /\ p_loaded = "list"
    /\ p_old_files # <<>>
    /\ Len(p_new_files) = 1
    /\ p_children[1].returncode = 0
    /\ p_included.files = p_old_files \o <<p_new_files[1][2]>>

\* The IR files of the sources lib.sources() yields now.
CurrentDests == {Dest(src) : src \in Range(p_sources)}

\* C28: every IR file handed to the linker, the injected wrapper aside, belongs
\* to a source lib.sources() yields now; a source dropped between two builds
\* without rebuild is no longer in included_files.json or in the link set.
C28_LinkSetFollowsCurrentSources ==
    /\ PreCompileReturned => Range(p_included.files) \subseteq CurrentDests
    /\ LinkCalled => Range(p_linked) \ {WrapperLL} \subseteq CurrentDests

\* lib.target and rename_mapping.json agree: both are missing, or the target is
\* a renamed blob and the stored mapping is the one the renamer made of it.
TargetMatchesMapping ==
    \/ p_target = NoTarget /\ p_mapfile = NoMapFile
    \/ /\ p_target.state = "renamed"
       /\ p_mapfile.exists
       /\ p_mapfile.mapping = detect_names(Text(p_target.lines), LibName)

\* C29: after every build, finished or failed at any step, the persisted target
\* and rename_mapping.json are consistent: the symbols of lib.target are the
\* renamed values of the stored mapping, and no failed build leaves an unrenamed
\* or newer blob next to an older or missing rename map.
C29_TargetAndMappingStayConsistent ==
    ppc \in {"idle", "done", "failed"} => TargetMatchesMapping

-----------------------------------------------------------------------------
(* Properties of the fuzzing seeds *)

\* One seed line per input argument (argument without preset value) of the
\* cache, in argument order.
RECURSIVE SeedLines(_)
SeedLines(cache) ==
    IF cache = <<>> THEN <<>>
    ELSE (IF Head(cache)[2].value # <<>> THEN <<>>
          ELSE IF Head(cache)[2].type = W_char /\ isptr(Head(cache)[2])
          THEN Repeat("A", Head(cache)[2].array_size) \o <<"\n">>
          ELSE IF Head(cache)[2].type = W_char THEN <<"A", "\n">>
          ELSE <<"1", "2", "3", "4", "\n">>)
         \o SeedLines(Tail(cache))

\* C30: every seed file a fuzzing build writes holds exactly one seed line per
\* input argument, in argument order, however many harness generations or
\* builds, finished or failed, ran on the object before; seed lines never
\* accumulate.
C30_SeedFilesHoldOneLinePerArgument ==
    g_seed_files.written =>
        /\ g_seed_files.files # <<>>
        /\ \A k \in 1 .. Len(g_seed_files.files) :
              g_seed_files.files[k][2] = SeedLines(g_seed_files.arguments_cache)

=============================================================================
